---------------------------- MODULE Spec2Model ----------------------------
(***************************************************************************)
(* A model of c_src/exile.c: the native half of Exile.ProcessNif.  One     *)
(* ExecContext (the handle of one spawned child) is modelled together with *)
(* the parts of the operating system and of the BEAM that its operations   *)
(* talk to: the child process, the two pipes, and enif_select.             *)
(*                                                                         *)
(* Every NIF is one action.  What a syscall answers is an input of the     *)
(* action, drawn from the answers the kernel can give in the current       *)
(* state.  Each action leaves in `last` what it was called with, what it   *)
(* returned and the syscalls it issued, in order.                          *)
(***************************************************************************)
EXTENDS Integers, Sequences, FiniteSets, TLC

VARIABLES
  ctx,          \* the ExecContext: cmd_input_fd, cmd_output_fd, pid, exit_type, exit_status
  sel,          \* readiness subscriptions held by enif_select, per direction
  child,        \* the child process as the kernel sees it
  pending,      \* signals sent to the child and not yet acted upon
  last,         \* the most recent step: operation, argument, return term, syscalls
  hist,         \* history: what the handle has gone through so far
  stdin_pipe,   \* bytes in the pipe to the child's standard input
  stdout_pipe,  \* bytes in the pipe from the child's standard output
  echo_buf,     \* bytes the echoing child has read and not yet written
  ready,        \* readiness messages delivered to the caller, per direction
  cl,           \* the caller of the echo scenario: where its writing and its
                \* reading stand, the bytes left to write, the bytes received
  launch,       \* the launch: its arguments, the descriptor tables of parent
                \* and child when execute returned, how far the child got
  conc          \* calls in flight on the handle from several scheduler
                \* threads, each at one of its steps

vars == <<ctx, sel, child, pending, last, hist,
          stdin_pipe, stdout_pipe, echo_buf, ready, cl, launch, conc>>

auxVars == <<launch, conc>>

echoVars == <<stdin_pipe, stdout_pipe, echo_buf, ready, cl>>

----------------------------------------------------------------------------
(* Program constants *)

PIPE_CLOSED == -1
CMD_EXIT == -1
UNBUFFERED_READ == -1
PIPE_BUF_SIZE == 65535

NORMAL_EXIT == 0
SIGNALED == 1
STOPPED == 2

SIGKILL == 9
SIGTERM == 15
EAGAIN == 11
EWOULDBLOCK == EAGAIN
EPIPE == 32
EIO == 5
EMFILE == 24
EBADF == 9

STDIN_FILENO == 0
STDOUT_FILENO == 1
STDERR_FILENO == 2

(* the exit code of a child that could not be set up or could not exec *)
FORK_EXEC_FAILURE == 125

(* What the launch left in the handle: the two retained pipe ends and the   *)
(* pid fork() returned.                                                    *)
W_CMDIN == 4
R_CMDOUT == 5
ChildPid == 100

(* enif_select answers 0 when the subscription was made or removed, and a   *)
(* negative number when it failed.                                         *)
SELECT_FAILED == -8

----------------------------------------------------------------------------
(* Bounds of the model *)

MaxLen == 2          \* longest binary handed to write, largest small read request
MaxPayload == 3      \* length of the payload sent through the echoing child
MaxPipe == 2         \* capacity of a kernel pipe in the echo scenario
MaxChunk == 2        \* most bytes the echoing child moves in one step
MaxFd == 7           \* highest descriptor number: sysconf(_SC_OPEN_MAX) is MaxFd + 1
MaxThreads == 2      \* scheduler threads that run calls on the handle at once

Min(a, b) == IF a < b THEN a ELSE b

----------------------------------------------------------------------------
(* Erlang terms the NIFs return *)

Term(kind, a, b) == [kind |-> kind, a |-> a, b |-> b]

enif_make_int(n) == Term("int", n, 0)
enif_make_binary(n) == Term("binary", n, 0)
enif_make_tuple2(x, y) == Term("tuple", x, y)

ATOM_OK == Term("ok", 0, 0)
ATOM_TRUE == Term("true", 0, 0)
ATOM_FALSE == Term("false", 0, 0)
ATOM_UNDEFINED == Term("undefined", 0, 0)
ATOM_PIPE_CLOSED == Term("closed_pipe", 0, 0)
ATOM_EAGAIN == Term("eagain", 0, 0)
BADARG == [tag |-> "badarg", term |-> Term("badarg", 0, 0)]
NoReturn == [tag |-> "none", term |-> Term("none", 0, 0)]

make_ok(term) == [tag |-> "ok", term |-> term]
make_error(term) == [tag |-> "error", term |-> term]
bare(term) == [tag |-> "atom", term |-> term]

(* {exit, N}, {signaled, N}, {stopped, N} *)
exit_tuple(atom, n) == Term(atom, n, 0)

----------------------------------------------------------------------------
(* One syscall (or enif_select call) as issued: which call, on which        *)
(* descriptor or pid, its argument, its result, and errno or wait status.  *)

Sys(call, on, arg, res, aux) ==
  [call |-> call, on |-> on, arg |-> arg, res |-> res, aux |-> aux]

Step(op, arg, ret, sys) == [op |-> op, arg |-> arg, ret |-> ret, sys |-> sys]


----------------------------------------------------------------------------
(* Pipe I/O.  A handler is a function of the handle c, the subscriptions s, *)
(* its argument and the answers of the calls it makes; it yields the new   *)
(* handle and subscriptions, the term returned and the calls issued.       *)

Outcome(c, s, ret, sys) == [ctx |-> c, sel |-> s, ret |-> ret, sys |-> sys]

(* select_write subscribing with ERL_NIF_SELECT_READ *)
select_write_read_mode(s, retval) ==
  IF retval = 0 THEN [s EXCEPT !.read = TRUE] ELSE s

(* enif_select(..., ERL_NIF_SELECT_WRITE, ...): the subscriptions after it *)
select_write(s, retval) == IF retval = 0 THEN [s EXCEPT !.write = TRUE] ELSE s

(* select_read subscribing with ERL_NIF_SELECT_WRITE *)
select_read_write_mode(s, retval) ==
  IF retval = 0 THEN [s EXCEPT !.write = TRUE] ELSE s

(* enif_select(..., ERL_NIF_SELECT_READ, ...) *)
select_read(s, retval) == IF retval = 0 THEN [s EXCEPT !.read = TRUE] ELSE s

(* the closed test comparing with 0 instead of PIPE_CLOSED *)
pipe_closed_zero(fd) == fd = 0

(* ctx->cmd_input_fd == PIPE_CLOSED, ctx->cmd_output_fd == PIPE_CLOSED *)
pipe_closed(fd) == fd = PIPE_CLOSED

(* any progress taken for completion *)
write_complete_any(result, size) == result > 0

(* result >= (ssize_t)bin.size: the request was completely satisfied *)
write_complete(result, size) == result >= size

(* sys_write giving up the direction on an error of write(2) *)
sys_write_autoclose(c, s, size, wr, retval) ==
  IF pipe_closed(c.cmd_input_fd)
    THEN Outcome(c, s, make_error(ATOM_PIPE_CLOSED), <<>>)
  ELSE IF size = 0
    THEN Outcome(c, s, BADARG, <<>>)
  ELSE
    LET w == Sys("write", c.cmd_input_fd, size, wr.result, wr.errno)
        e == Sys("select_write", c.cmd_input_fd, 0, retval, 0)
    IN  IF write_complete(wr.result, size)
          THEN Outcome(c, s, make_ok(enif_make_int(wr.result)), <<w>>)
        ELSE IF wr.result >= 0
          THEN IF retval # 0
                 THEN Outcome(c, select_write(s, retval),
                              make_error(enif_make_int(retval)), <<w, e>>)
                 ELSE Outcome(c, select_write(s, retval),
                              make_ok(enif_make_int(wr.result)), <<w, e>>)
        ELSE IF wr.errno = EAGAIN \/ wr.errno = EWOULDBLOCK
          THEN IF retval # 0
                 THEN Outcome(c, select_write(s, retval),
                              make_error(enif_make_int(retval)), <<w, e>>)
                 ELSE Outcome(c, select_write(s, retval),
                              make_error(ATOM_EAGAIN), <<w, e>>)
        ELSE Outcome([c EXCEPT !.cmd_input_fd = PIPE_CLOSED], s,
                     make_error(enif_make_int(wr.errno)), <<w>>)

sys_write(c, s, size, wr, retval) ==
  IF pipe_closed(c.cmd_input_fd)
    THEN Outcome(c, s, make_error(ATOM_PIPE_CLOSED), <<>>)
  ELSE IF size = 0
    THEN Outcome(c, s, BADARG, <<>>)
  ELSE
    LET w == Sys("write", c.cmd_input_fd, size, wr.result, wr.errno)
        e == Sys("select_write", c.cmd_input_fd, 0, retval, 0)
    IN  IF write_complete(wr.result, size)
          THEN Outcome(c, s, make_ok(enif_make_int(wr.result)), <<w>>)
        ELSE IF wr.result >= 0
          THEN IF retval # 0
                 THEN Outcome(c, select_write(s, retval),
                              make_error(enif_make_int(retval)), <<w, e>>)
                 ELSE Outcome(c, select_write(s, retval),
                              make_ok(enif_make_int(wr.result)), <<w, e>>)
        ELSE IF wr.errno = EAGAIN \/ wr.errno = EWOULDBLOCK
          THEN IF retval # 0
                 THEN Outcome(c, select_write(s, retval),
                              make_error(enif_make_int(retval)), <<w, e>>)
                 ELSE Outcome(c, select_write(s, retval),
                              make_error(ATOM_EAGAIN), <<w, e>>)
        ELSE Outcome(c, s, make_error(enif_make_int(wr.errno)), <<w>>)

(* size of the buffer handed to read(2) *)
read_size(request) ==
  IF request = UNBUFFERED_READ THEN PIPE_BUF_SIZE
  ELSE IF request > PIPE_BUF_SIZE THEN PIPE_BUF_SIZE
  ELSE request

(* the end of stream forgotten among the cases that do not select *)
read_no_select_eof(result, request) ==
  result = request \/ request = UNBUFFERED_READ

(* the unbuffered request forgotten among the cases that do not select *)
read_no_select_buffered(result, request) ==
  result = request \/ result = 0

(* "we do not 'select' if request completely satisfied OR EOF OR its        *)
(* UNBUFFERED_READ"                                                        *)
read_no_select(result, request) ==
  result = request \/ result = 0 \/ request = UNBUFFERED_READ

sys_read(c, s, request, rd, retval) ==
  IF pipe_closed(c.cmd_output_fd)
    THEN Outcome(c, s, make_error(ATOM_PIPE_CLOSED), <<>>)
  ELSE
    LET r == Sys("read", c.cmd_output_fd, read_size(request), rd.result, rd.errno)
        e == Sys("select_read", c.cmd_output_fd, 0, retval, 0)
    IN  IF rd.result >= 0
          THEN IF read_no_select(rd.result, request)
                 THEN Outcome(c, s, make_ok(enif_make_binary(rd.result)), <<r>>)
               ELSE IF retval # 0
                 THEN Outcome(c, select_read(s, retval),
                              make_error(enif_make_int(retval)), <<r, e>>)
                 ELSE Outcome(c, select_read(s, retval),
                              make_ok(enif_make_binary(rd.result)), <<r, e>>)
        ELSE IF rd.errno = EAGAIN \/ rd.errno = EWOULDBLOCK
          THEN IF retval # 0
                 THEN Outcome(c, select_read(s, retval),
                              make_error(enif_make_int(retval)), <<r, e>>)
                 ELSE Outcome(c, select_read(s, retval),
                              make_error(ATOM_EAGAIN), <<r, e>>)
        ELSE Outcome(c, s, make_error(enif_make_int(rd.errno)), <<r>>)

(* the bytes of buf copied into the binary returned by read *)
read_binary(buf, result) == SubSeq(buf, 1, result)

(* sys_close that closes the descriptor without stopping its subscription *)
sys_close_unstopped(c, s, kind, cr) ==
  IF kind = 0
    THEN IF pipe_closed(c.cmd_input_fd)
           THEN Outcome(c, s, bare(ATOM_OK), <<>>)
           ELSE LET sys == <<Sys("close", c.cmd_input_fd, 0, cr.result, cr.errno)>>
                IN  IF cr.result = 0
                      THEN Outcome([c EXCEPT !.cmd_input_fd = PIPE_CLOSED], s,
                                   bare(ATOM_OK), sys)
                      ELSE Outcome(c, s, make_error(enif_make_int(cr.errno)), sys)
  ELSE IF kind = 1
    THEN IF pipe_closed(c.cmd_output_fd)
           THEN Outcome(c, s, bare(ATOM_OK), <<>>)
           ELSE LET sys == <<Sys("close", c.cmd_output_fd, 0, cr.result, cr.errno)>>
                IN  IF cr.result = 0
                      THEN Outcome([c EXCEPT !.cmd_output_fd = PIPE_CLOSED], s,
                                   bare(ATOM_OK), sys)
                      ELSE Outcome(c, s, make_error(enif_make_int(cr.errno)), sys)
  ELSE Outcome(c, s, BADARG, <<>>)

(* sys_close whose case 1 tests cmd_input_fd *)
sys_close_input_test(c, s, kind, cr) ==
  IF kind = 0
    THEN IF pipe_closed(c.cmd_input_fd)
           THEN Outcome(c, s, bare(ATOM_OK), <<>>)
           ELSE LET sys == <<Sys("select_stop", c.cmd_input_fd, 0, 0, 0),
                             Sys("close", c.cmd_input_fd, 0, cr.result, cr.errno)>>
                    s2 == [s EXCEPT !.write = FALSE]
                IN  IF cr.result = 0
                      THEN Outcome([c EXCEPT !.cmd_input_fd = PIPE_CLOSED], s2,
                                   bare(ATOM_OK), sys)
                      ELSE Outcome(c, s2, make_error(enif_make_int(cr.errno)), sys)
  ELSE IF kind = 1
    THEN IF pipe_closed(c.cmd_input_fd)
           THEN Outcome(c, s, bare(ATOM_OK), <<>>)
           ELSE LET sys == <<Sys("select_stop", c.cmd_output_fd, 0, 0, 0),
                             Sys("close", c.cmd_output_fd, 0, cr.result, cr.errno)>>
                    s2 == [s EXCEPT !.read = FALSE]
                IN  IF cr.result = 0
                      THEN Outcome([c EXCEPT !.cmd_output_fd = PIPE_CLOSED], s2,
                                   bare(ATOM_OK), sys)
                      ELSE Outcome(c, s2, make_error(enif_make_int(cr.errno)), sys)
  ELSE Outcome(c, s, BADARG, <<>>)

(* sys_close whose case 0 stops the subscriptions of both directions *)
sys_close_both_stop(c, s, kind, cr) ==
  IF kind = 0
    THEN IF pipe_closed(c.cmd_input_fd)
           THEN Outcome(c, s, bare(ATOM_OK), <<>>)
           ELSE LET sys == <<Sys("select_stop", c.cmd_input_fd, 0, 0, 0),
                             Sys("close", c.cmd_input_fd, 0, cr.result, cr.errno)>>
                    s2 == [read |-> FALSE, write |-> FALSE]
                IN  IF cr.result = 0
                      THEN Outcome([c EXCEPT !.cmd_input_fd = PIPE_CLOSED], s2,
                                   bare(ATOM_OK), sys)
                      ELSE Outcome(c, s2, make_error(enif_make_int(cr.errno)), sys)
  ELSE IF kind = 1
    THEN IF pipe_closed(c.cmd_output_fd)
           THEN Outcome(c, s, bare(ATOM_OK), <<>>)
           ELSE LET sys == <<Sys("select_stop", c.cmd_output_fd, 0, 0, 0),
                             Sys("close", c.cmd_output_fd, 0, cr.result, cr.errno)>>
                    s2 == [s EXCEPT !.read = FALSE]
                IN  IF cr.result = 0
                      THEN Outcome([c EXCEPT !.cmd_output_fd = PIPE_CLOSED], s2,
                                   bare(ATOM_OK), sys)
                      ELSE Outcome(c, s2, make_error(enif_make_int(cr.errno)), sys)
  ELSE Outcome(c, s, BADARG, <<>>)

(* kind 0 closes the input direction, kind 1 the output direction; cr is   *)
(* what close(2) answers and its errno.                                    *)
sys_close(c, s, kind, cr) ==
  IF kind = 0
    THEN IF pipe_closed(c.cmd_input_fd)
           THEN Outcome(c, s, bare(ATOM_OK), <<>>)
           ELSE LET sys == <<Sys("select_stop", c.cmd_input_fd, 0, 0, 0),
                             Sys("close", c.cmd_input_fd, 0, cr.result, cr.errno)>>
                    s2 == [s EXCEPT !.write = FALSE]
                IN  IF cr.result = 0
                      THEN Outcome([c EXCEPT !.cmd_input_fd = PIPE_CLOSED], s2,
                                   bare(ATOM_OK), sys)
                      ELSE Outcome(c, s2, make_error(enif_make_int(cr.errno)), sys)
  ELSE IF kind = 1
    THEN IF pipe_closed(c.cmd_output_fd)
           THEN Outcome(c, s, bare(ATOM_OK), <<>>)
           ELSE LET sys == <<Sys("select_stop", c.cmd_output_fd, 0, 0, 0),
                             Sys("close", c.cmd_output_fd, 0, cr.result, cr.errno)>>
                    s2 == [s EXCEPT !.read = FALSE]
                IN  IF cr.result = 0
                      THEN Outcome([c EXCEPT !.cmd_output_fd = PIPE_CLOSED], s2,
                                   bare(ATOM_OK), sys)
                      ELSE Outcome(c, s2, make_error(enif_make_int(cr.errno)), sys)
  ELSE Outcome(c, s, BADARG, <<>>)

----------------------------------------------------------------------------
(* Process lifecycle *)

(* <sys/wait.h>: how the kernel packs a wait status and how the macros      *)
(* read it                                                                 *)
W_EXITCODE(code, sig) == code * 256 + sig
W_STOPCODE(sig) == sig * 256 + 127
WIFEXITED(status) == status % 128 = 0
WEXITSTATUS(status) == (status \div 256) % 256
WIFSIGNALED(status) == (status % 128) # 0 /\ (status % 128) # 127
WTERMSIG(status) == status % 128
WIFSTOPPED(status) == status % 256 = 127

is_alive(c, s, kr) ==
  IF c.pid = CMD_EXIT
    THEN Outcome(c, s, make_ok(ATOM_TRUE), <<>>)
    ELSE LET sys == <<Sys("kill", c.pid, 0, kr, 0)>>
         IN  IF kr = 0
               THEN Outcome(c, s, make_ok(ATOM_TRUE), sys)
               ELSE Outcome(c, s, make_ok(ATOM_FALSE), sys)

sys_terminate(c, s, kr) ==
  IF c.pid = CMD_EXIT
    THEN Outcome(c, s, make_ok(enif_make_int(0)), <<>>)
    ELSE Outcome(c, s, make_ok(enif_make_int(kr)),
                 <<Sys("kill", c.pid, SIGTERM, kr, 0)>>)

(* sys_kill without the test for a reaped pid *)
sys_kill_unchecked(c, s, kr) ==
  Outcome(c, s, make_ok(enif_make_int(kr)), <<Sys("kill", c.pid, SIGKILL, kr, 0)>>)

(* sys_kill sending SIGTERM *)
sys_kill_sigterm(c, s, kr) ==
  IF c.pid = CMD_EXIT
    THEN Outcome(c, s, make_ok(enif_make_int(0)), <<>>)
    ELSE Outcome(c, s, make_ok(enif_make_int(kr)),
                 <<Sys("kill", c.pid, SIGTERM, kr, 0)>>)

sys_kill(c, s, kr) ==
  IF c.pid = CMD_EXIT
    THEN Outcome(c, s, make_ok(enif_make_int(0)), <<>>)
    ELSE Outcome(c, s, make_ok(enif_make_int(kr)),
                 <<Sys("kill", c.pid, SIGKILL, kr, 0)>>)

make_exit_term(c) ==
  IF c.exit_type = NORMAL_EXIT THEN make_ok(exit_tuple("exit", c.exit_status))
  ELSE IF c.exit_type = SIGNALED THEN make_ok(exit_tuple("signaled", c.exit_status))
  ELSE IF c.exit_type = STOPPED THEN make_ok(exit_tuple("stopped", c.exit_status))
  ELSE make_error(ATOM_UNDEFINED)

(* the raw status stored where the exit code belongs *)
record_status_raw(c, status) ==
  IF WIFEXITED(status)
    THEN [c EXCEPT !.exit_type = NORMAL_EXIT, !.exit_status = status]
  ELSE IF WIFSIGNALED(status)
    THEN [c EXCEPT !.exit_type = SIGNALED, !.exit_status = WTERMSIG(status)]
  ELSE IF WIFSTOPPED(status)
    THEN [c EXCEPT !.exit_type = STOPPED, !.exit_status = 0]
  ELSE c

(* the exit fields after a reap that observed `status` *)
record_status(c, status) ==
  IF WIFEXITED(status)
    THEN [c EXCEPT !.exit_type = NORMAL_EXIT, !.exit_status = WEXITSTATUS(status)]
  ELSE IF WIFSIGNALED(status)
    THEN [c EXCEPT !.exit_type = SIGNALED, !.exit_status = WTERMSIG(status)]
  ELSE IF WIFSTOPPED(status)
    THEN [c EXCEPT !.exit_type = STOPPED, !.exit_status = 0]
  ELSE c

(* sys_wait taking every answer but -1 for a reap *)
sys_wait_not_error(c, s, wp) ==
  IF c.pid = CMD_EXIT
    THEN Outcome(c, s, make_exit_term(c), <<>>)
    ELSE LET sys == <<Sys("waitpid", c.pid, 0, wp.wpid, wp.status)>>
         IN  IF wp.wpid # -1
               THEN LET c2 == record_status([c EXCEPT !.pid = CMD_EXIT], wp.status)
                    IN  Outcome(c2, s, make_exit_term(c2), sys)
               ELSE Outcome(c, s,
                            make_error(enif_make_tuple2(wp.wpid, wp.status)), sys)

(* wp is what waitpid(pid, &status, WNOHANG) answers: the id it returns and *)
(* the status, which stays at its initial 0 unless waitpid stored one.     *)
sys_wait(c, s, wp) ==
  IF c.pid = CMD_EXIT
    THEN Outcome(c, s, make_exit_term(c), <<>>)
    ELSE LET sys == <<Sys("waitpid", c.pid, 0, wp.wpid, wp.status)>>
         IN  IF wp.wpid = c.pid
               THEN LET c2 == record_status([c EXCEPT !.pid = CMD_EXIT], wp.status)
                    IN  Outcome(c2, s, make_exit_term(c2), sys)
               ELSE Outcome(c, s,
                            make_error(enif_make_tuple2(wp.wpid, wp.status)), sys)

os_pid(c, s) ==
  IF c.pid = CMD_EXIT
    THEN Outcome(c, s, make_ok(enif_make_int(0)), <<>>)
    ELSE Outcome(c, s, make_ok(enif_make_int(c.pid)), <<>>)

(* The destructor of the handle: it drops the references to the two        *)
(* objects used with enif_select and nothing else; it calls neither        *)
(* enif_select nor close(2), so the descriptors and the subscriptions are  *)
(* what they were.                                                         *)
exec_ctx_dtor(c, s) == Outcome(c, s, NoReturn, <<>>)

----------------------------------------------------------------------------
(* Launch.  A descriptor table maps each descriptor number to what it      *)
(* refers to ("none" when closed), whether the file is non-blocking and    *)
(* whether the descriptor is closed by exec.                               *)

Fds == 0..MaxFd

Closed == [obj |-> "none", nonblock |-> FALSE, cloexec |-> FALSE]
Opened(obj) == [obj |-> obj, nonblock |-> FALSE, cloexec |-> FALSE]
NoTable == [f \in Fds |-> Closed]

IsOpen(t, fd) == fd \in Fds /\ t[fd].obj # "none"
Free(t) == {f \in Fds : t[f].obj = "none"}
Lowest(S) == CHOOSE f \in S : \A g \in S : f <= g

(* close(2) and dup2(2) on a table; dup2 of a descriptor onto itself does   *)
(* nothing, the copy made otherwise is not closed by exec                  *)
close(t, fd) == IF fd \in Fds THEN [t EXCEPT ![fd] = Closed] ELSE t
dup2(t, old, new) ==
  IF old = new THEN t ELSE [t EXCEPT ![new] = [t[old] EXCEPT !.cloexec = FALSE]]

(* pipe(2): the two lowest free descriptors, read end first; -1 with        *)
(* nothing opened and the array untouched when the kernel refuses or the   *)
(* table is full                                                           *)
pipe(t, ok, robj, wobj) ==
  IF ok /\ Cardinality(Free(t)) >= 2
    THEN LET r == Lowest(Free(t))
             w == Lowest(Free(t) \ {r})
         IN  [result |-> 0, errno |-> 0, r |-> r, w |-> w,
              fds |-> [t EXCEPT ![r] = Opened(robj), ![w] = Opened(wobj)]]
    ELSE [result |-> -1, errno |-> EMFILE, r |-> 0, w |-> 0, fds |-> t]

(* fcntl(fd, F_SETFL, fcntl(fd, F_GETFL) | flags): F_SETFL changes the file *)
(* status flags, of which the code passes O_NONBLOCK; O_CLOEXEC is not a   *)
(* file status flag and F_SETFL ignores it                                 *)
set_flag(t, fd, nonblock) == [t EXCEPT ![fd].nonblock = @ \/ nonblock]

(* int pipes[2][2] = {{0, 0}, {0, 0}}, as <<r_cmdin, w_cmdin, r_cmdout, w_cmdout>> *)
NoPipes == <<0, 0, 0, 0>>

(* close_all closing the ends of the first pipe only *)
close_all_first_pipe(t, pipes) ==
  [f \in Fds |-> IF f > 0 /\ (\E i \in 1..2 : pipes[i] = f) THEN Closed ELSE t[f]]

(* close_all: every entry of pipes that is > 0 is closed *)
close_all(t, pipes) ==
  [f \in Fds |-> IF f > 0 /\ (\E i \in 1..4 : pipes[i] = f) THEN Closed ELSE t[f]]

(* the close calls close_all issues, in its order *)
close_all_calls(pipes) ==
  LET Positive(fd) == fd > 0
      ends == SelectSeq(pipes, Positive)
  IN  [i \in 1..Len(ends) |-> Sys("close", ends[i], 0, 0, 0)]

(* the four set_flag calls in the order of the || chain; the first n of     *)
(* them took effect                                                        *)
flag_calls(r_cmdin, w_cmdin, r_cmdout, w_cmdout) ==
  <<[fd |-> r_cmdin, nonblock |-> FALSE], [fd |-> w_cmdout, nonblock |-> FALSE],
    [fd |-> w_cmdin, nonblock |-> TRUE], [fd |-> r_cmdout, nonblock |-> TRUE]>>

RECURSIVE set_flags(_, _, _)
set_flags(t, calls, n) ==
  IF n = 0 THEN t
  ELSE set_flag(set_flags(t, calls, n - 1), calls[n].fd, calls[n].nonblock)

(* StartProcessResult with success = false; no child exists *)
start_failed(err, t, sys) ==
  [success |-> FALSE, err |-> err,
   context |-> [cmd_input_fd |-> 0, cmd_output_fd |-> 0, pid |-> 0],
   parent |-> t, child |-> NoTable, r_cmdin |-> 0, w_cmdout |-> 0, sys |-> sys]

(* The parent's side of start_process on the descriptor table t.  ans is    *)
(* what the kernel answers: whether each pipe(2) and fork(2) succeeds, and *)
(* which of the four set_flag calls fails (0: none).  The result carries   *)
(* the parent's table on return and the table the child starts with.       *)
start_process(t, ans) ==
  LET p1 == pipe(t, ans.pipe1, "cmdin_r", "cmdin_w")
      p2 == pipe(p1.fds, ans.pipe2, "cmdout_r", "cmdout_w")
      c1 == Sys("pipe", p1.r, p1.w, p1.result, p1.errno)
      c2 == Sys("pipe", p2.r, p2.w, p2.result, p2.errno)
  IN  IF p1.result = -1
        THEN start_failed(p1.errno, close_all(p1.fds, NoPipes),
                          <<c1>> \o close_all_calls(NoPipes))
      ELSE IF p2.result = -1
        THEN start_failed(p2.errno, close_all(p2.fds, <<p1.r, p1.w, 0, 0>>),
                          <<c1, c2>> \o close_all_calls(<<p1.r, p1.w, 0, 0>>))
      ELSE
        LET pipes == <<p1.r, p1.w, p2.r, p2.w>>
            r_cmdin == p1.r
            w_cmdin == p1.w
            r_cmdout == p2.r
            w_cmdout == p2.w
            calls == flag_calls(r_cmdin, w_cmdin, r_cmdout, w_cmdout)
            issued == IF ans.flag = 0 THEN 4 ELSE ans.flag
            done == IF ans.flag = 0 THEN 4 ELSE ans.flag - 1
            flagged == set_flags(p2.fds, calls, done)
            fc == [i \in 1..issued |->
                     Sys("fcntl", calls[i].fd, 0, IF i = ans.flag THEN -1 ELSE 0,
                         IF i = ans.flag THEN EBADF ELSE 0)]
        IN  IF ans.flag # 0
              THEN start_failed(EBADF, close_all(flagged, pipes),
                                <<c1, c2>> \o fc \o close_all_calls(pipes))
            ELSE IF ~ans.fork
              THEN start_failed(EAGAIN, close_all(flagged, pipes),
                                <<c1, c2>> \o fc \o <<Sys("fork", 0, 0, -1, EAGAIN)>>
                                  \o close_all_calls(pipes))
            ELSE [success |-> TRUE, err |-> 0,
                  context |-> [cmd_input_fd |-> w_cmdin, cmd_output_fd |-> r_cmdout,
                               pid |-> ChildPid],
                  parent |-> close(close(flagged, r_cmdin), w_cmdout),
                  child |-> flagged, r_cmdin |-> r_cmdin, w_cmdout |-> w_cmdout,
                  sys |-> <<c1, c2>> \o fc \o <<Sys("fork", 0, 0, ChildPid, 0),
                            Sys("close", r_cmdin, 0, 0, 0),
                            Sys("close", w_cmdout, 0, 0, 0)>>]

(* close_all_fds: every descriptor from STDERR_FILENO + 1 up to the limit *)
close_all_fds(t) == [f \in Fds |-> IF f > STDERR_FILENO THEN Closed ELSE t[f]]

(* the child leaving with the exit code of the shell's "command not found" *)
(* when exec fails                                                         *)
failure_exit_shell(step) == IF step = "exec" THEN 127 ELSE FORK_EXEC_FAILURE

(* the child leaving with EXIT_FAILURE *)
failure_exit_one(step) == 1

(* _exit(FORK_EXEC_FAILURE) after the step that failed *)
failure_exit(step) == FORK_EXEC_FAILURE

child_failed(step) ==
  [ran |-> FALSE, status |-> failure_exit(step), step |-> step, fds |-> NoTable]

(* The child's side of start_process, from fork to execve, on the table t   *)
(* it inherited.  args tells whether dir is non-empty, whether stderr goes *)
(* to the console and whether args[0] can be executed; fail names the step *)
(* the kernel refuses ("none": no step).  The result tells whether the     *)
(* target program runs, and with which descriptors, or the exit code.      *)
child_setup(t, r_cmdin, w_cmdout, args, fail) ==
  IF args.dir /\ fail = "chdir" THEN child_failed("chdir")
  ELSE
    LET t1 == close(close(t, STDIN_FILENO), STDOUT_FILENO) IN
    IF fail = "dup_stdin" \/ ~IsOpen(t1, r_cmdin) THEN child_failed("dup_stdin")
    ELSE
      LET t2 == dup2(t1, r_cmdin, STDIN_FILENO) IN
      IF fail = "dup_stdout" \/ ~IsOpen(t2, w_cmdout) THEN child_failed("dup_stdout")
      ELSE
        LET t3 == dup2(t2, w_cmdout, STDOUT_FILENO)
            t4 == close(t3, STDERR_FILENO)
            dev_null == Lowest(Free(t4))
            t5 == [t4 EXCEPT ![dev_null] = Opened("null")]
            t6 == close(dup2(t5, dev_null, STDERR_FILENO), dev_null)
        IN  IF ~args.stderr_to_console /\ fail = "open_null"
              THEN child_failed("open_null")
            ELSE IF ~args.stderr_to_console /\ fail = "dup_stderr"
              THEN child_failed("dup_stderr")
            ELSE
              LET t7 == close_all_fds(IF args.stderr_to_console THEN t3 ELSE t6) IN
              IF fail = "exec" \/ ~args.path_exists THEN child_failed("exec")
              ELSE [ran |-> TRUE, status |-> 0, step |-> "none",
                    fds |-> [f \in Fds |-> IF t7[f].cloexec THEN Closed ELSE t7[f]]]

(* the term execute returns for a StartProcessResult *)
execute(result) ==
  IF result.success THEN make_ok(Term("resource", 0, 0))
  ELSE make_error(enif_make_int(result.err))

----------------------------------------------------------------------------
(* What the kernel and enif_select can answer *)

ExitCodes == {0, 7}
StopSignals == {19}
Payload == [i \in 1..MaxPayload |-> i]

(* write(2) on a non-blocking pipe: some of the bytes, or an error *)
WriteAnswers(size) ==
  {[result |-> n, errno |-> 0] : n \in 0..size}
    \cup {[result |-> -1, errno |-> e] : e \in {EAGAIN, EPIPE}}

(* read(2) into a buffer of `size` bytes: at most `size` bytes, or an error *)
ReadAnswers(size) ==
  {[result |-> n, errno |-> 0] :
      n \in {m \in (0..MaxLen) \cup ((PIPE_BUF_SIZE - 1)..(PIPE_BUF_SIZE + 1)) : m <= size}}
    \cup {[result |-> -1, errno |-> e] : e \in {EAGAIN, EIO}}

ReadRequests ==
  {UNBUFFERED_READ} \cup (1..MaxLen) \cup ((PIPE_BUF_SIZE - 1)..(PIPE_BUF_SIZE + 1))

SelectAnswers == {0, SELECT_FAILED}

CloseAnswers == {[result |-> 0, errno |-> 0], [result |-> -1, errno |-> EIO]}

(* the status the kernel holds for a terminated child *)
KernelStatus(ch) ==
  IF ch.how = "exit" THEN W_EXITCODE(ch.val, 0) ELSE W_EXITCODE(0, ch.val)

(* waitpid(pid, &status, WNOHANG): -1 on an error, 0 while the child has    *)
(* not changed state, the pid with a status once it has terminated; a      *)
(* traced child is also reported when it stops.                            *)
WaitpidAnswers(ch, pend) ==
  {[wpid |-> -1, status |-> 0]}
    \cup (IF ch.state = "running" THEN {[wpid |-> 0, status |-> 0]} ELSE {})
    \cup (IF ch.state = "running" /\ SIGKILL \notin pend
            THEN {[wpid |-> ChildPid, status |-> W_STOPCODE(sig)] : sig \in StopSignals}
            ELSE {})
    \cup (IF ch.state = "zombie"
            THEN {[wpid |-> ChildPid, status |-> KernelStatus(ch)]}
            ELSE {})

(* kill(pid, sig): fails once the pid is gone, and may be refused *)
KillAnswers(ch) == IF ch.state = "reaped" THEN {-1} ELSE {0, -1}

(* what execute is called with, as far as start_process looks at it *)
Args == [dir : BOOLEAN, stderr_to_console : BOOLEAN, path_exists : BOOLEAN]

(* The descriptors of the BEAM when execute is called: the three standard  *)
(* streams, and any of the others.                                         *)
StdTable ==
  [f \in Fds |-> IF f = STDIN_FILENO THEN Opened("stdin")
                 ELSE IF f = STDOUT_FILENO THEN Opened("stdout")
                 ELSE IF f = STDERR_FILENO THEN Opened("stderr")
                 ELSE Closed]

ParentTables ==
  {[f \in Fds |-> IF f \in extra THEN Opened("file") ELSE StdTable[f]] :
     extra \in SUBSET ((STDERR_FILENO + 1)..MaxFd)}

StartAnswers == [pipe1 : BOOLEAN, pipe2 : BOOLEAN, flag : 0..4, fork : BOOLEAN]
NoFailure == [pipe1 |-> TRUE, pipe2 |-> TRUE, flag |-> 0, fork |-> TRUE]

(* the steps of the child that are executed for these arguments *)
ChildFailures(args) ==
  {"none", "dup_stdin", "dup_stdout", "exec"}
    \cup (IF args.dir THEN {"chdir"} ELSE {})
    \cup (IF args.stderr_to_console THEN {} ELSE {"open_null", "dup_stderr"})

(* no ExecContext has been allocated *)
NoHandle ==
  [cmd_input_fd |-> 0, cmd_output_fd |-> 0, pid |-> 0, exit_type |-> 0,
   exit_status |-> 0]

(* before execute is called *)
NotLaunched(args, t) ==
  [pc |-> "call", args |-> args, parent0 |-> t, parent |-> t, child_fds |-> NoTable,
   r_cmdin |-> 0, w_cmdout |-> 0, cstate |-> "none", cstep |-> "none",
   handle |-> FALSE, ret |-> NoReturn]

(* after execute returned for the result r of start_process *)
Returned(l, r) ==
  [l EXCEPT !.pc = "returned", !.parent = r.parent, !.child_fds = r.child,
            !.r_cmdin = r.r_cmdin, !.w_cmdout = r.w_cmdout,
            !.cstate = IF r.success THEN "forked" ELSE "none",
            !.handle = r.success, !.ret = execute(r)]

(* after the child went through its setup with outcome c *)
SetUp(l, c) ==
  [l EXCEPT !.cstate = IF c.ran THEN "exec" ELSE "failed", !.cstep = c.step,
            !.child_fds = c.fds]

(* a launch from the standard streams in which nothing failed *)
Launched ==
  LET args == [dir |-> FALSE, stderr_to_console |-> TRUE, path_exists |-> TRUE]
      r == start_process(StdTable, NoFailure)
      c == child_setup(r.child, r.r_cmdin, r.w_cmdout, args, "none")
  IN  SetUp(Returned(NotLaunched(args, StdTable), r), c)

----------------------------------------------------------------------------
(* Calls in flight.  The NIFs run on dirty I/O schedulers and take no      *)
(* lock, so calls on one handle run at once, each at its own step.  A      *)
(* thread remembers which call it runs, the step it is at, the value of    *)
(* the field of the handle it tested at its first step, and what its       *)
(* syscall answered.                                                       *)

Threads == 1..MaxThreads

Idle == [op |-> "idle", pc |-> "idle", dir |-> "none", seen |-> 0, res |-> 0, aux |-> 0]

Running(op, pc, dir, seen, res, aux) ==
  [op |-> op, pc |-> pc, dir |-> dir, seen |-> seen, res |-> res, aux |-> aux]

(* no call in flight; nothing closed, no signal sent yet *)
NoCalls ==
  [thr |-> [t \in Threads |-> Idle], closed |-> {}, late |-> {}, kills |-> {}]

(* ctx->cmd_input_fd or ctx->cmd_output_fd *)
Field(c, dir) == IF dir = "in" THEN c.cmd_input_fd ELSE c.cmd_output_fd

(* Reading a field of the handle again after the test, while another       *)
(* thread may write it, is a data race: the step works with the value the  *)
(* test saw, kept in a register, or with the value the field has now.      *)
Reads(seen, now) == {seen, now}

(* the calls that count as use of a descriptor *)
DescriptorUse == {"read", "write", "select_read", "select_write", "close"}

(* the books after thread t issued `call` on descriptor fd and moved on    *)
(* to `next`: the descriptors close(2) was called on, and the first call   *)
(* issued on a descriptor after that                                       *)
AfterCall(t, next, call, fd) ==
  [conc EXCEPT
     !.thr[t] = next,
     !.closed = IF call = "close" THEN @ \cup {fd} ELSE @,
     !.late = IF call \in DescriptorUse /\ fd \in conc.closed /\ conc.late = {}
                THEN {<<call, fd>>} ELSE @]

----------------------------------------------------------------------------
(* The state after execute returned {ok, Handle}.  exit_type and            *)
(* exit_status are not set by execute: they hold whatever the allocation   *)
(* left there.                                                             *)

Init ==
  /\ ctx \in [cmd_input_fd : {W_CMDIN}, cmd_output_fd : {R_CMDOUT},
              pid : {ChildPid}, exit_type : 0..3, exit_status : {99}]
  /\ sel = [read |-> FALSE, write |-> FALSE]
  /\ child = [state |-> "running", how |-> "none", val |-> 0]
  /\ pending = {}
  /\ last = Step("execute", 0, make_ok(Term("resource", 0, 0)), <<>>)
  /\ hist = [term |-> NoReturn, kill_unreaped |-> FALSE, kill_running |-> FALSE,
             released |-> FALSE]
  /\ stdin_pipe = <<>>
  /\ stdout_pipe = <<>>
  /\ echo_buf = <<>>
  /\ ready = [read |-> FALSE, write |-> FALSE]
  /\ cl = [wpc |-> "write", rpc |-> "read", rest |-> Payload, got |-> <<>>]
  /\ launch = Launched
  /\ conc = NoCalls

(* a handler's outcome becomes the next state *)
Apply(op, arg, r) ==
  /\ ctx' = r.ctx
  /\ sel' = r.sel
  /\ last' = Step(op, arg, r.ret, r.sys)

EnvStep(what) == last' = Step(what, 0, NoReturn, <<>>)

Write ==
  \E size \in 0..MaxLen :
    \E wr \in WriteAnswers(size), retval \in SelectAnswers :
      /\ Apply("write", size, sys_write(ctx, sel, size, wr, retval))
      /\ UNCHANGED <<auxVars, child, pending, hist, echoVars>>

Read ==
  \E request \in ReadRequests :
    \E rd \in ReadAnswers(read_size(request)), retval \in SelectAnswers :
      /\ Apply("read", request, sys_read(ctx, sel, request, rd, retval))
      /\ UNCHANGED <<auxVars, child, pending, hist, echoVars>>

Close ==
  \E kind \in 0..2, cr \in CloseAnswers :
    /\ Apply("close", kind, sys_close(ctx, sel, kind, cr))
    /\ UNCHANGED <<auxVars, child, pending, hist, echoVars>>

(* kill(pid, sig) that the kernel accepted for a running child leaves sig   *)
(* pending; signal 0 only probes                                           *)
Signal(r) ==
  IF r.sys # <<>> /\ r.sys[1].res = 0 /\ r.sys[1].arg # 0 /\ child.state = "running"
    THEN pending \cup {r.sys[1].arg} ELSE pending

IsAlive ==
  \E kr \in KillAnswers(child) :
    /\ Apply("is_alive", 0, is_alive(ctx, sel, kr))
    /\ UNCHANGED <<auxVars, child, pending, hist, echoVars>>

Terminate ==
  \E kr \in KillAnswers(child) :
    LET r == sys_terminate(ctx, sel, kr) IN
      /\ Apply("terminate", 0, r)
      /\ pending' = Signal(r)
      /\ UNCHANGED <<auxVars, child, hist, echoVars>>

Kill ==
  \E kr \in KillAnswers(child) :
    LET r == sys_kill(ctx, sel, kr) IN
      /\ Apply("kill", 0, r)
      /\ pending' = Signal(r)
      /\ hist' = [hist EXCEPT
                    !.kill_unreaped = @ \/ (r.sys # <<>> /\ kr = 0),
                    !.kill_running = @ \/ (r.sys # <<>> /\ kr = 0
                                             /\ child.state = "running")]
      /\ UNCHANGED <<auxVars, child, echoVars>>

WaitWith(wp) ==
  LET r == sys_wait(ctx, sel, wp) IN
    /\ Apply("wait", 0, r)
    /\ child' = IF r.sys # <<>> /\ wp.wpid = ChildPid /\ child.state = "zombie"
                  THEN [child EXCEPT !.state = "reaped"] ELSE child
    /\ hist' = IF ctx.pid # CMD_EXIT /\ r.ctx.pid = CMD_EXIT
                 THEN [hist EXCEPT !.term = r.ret] ELSE hist
    /\ UNCHANGED <<auxVars, pending, echoVars>>

Wait == \E wp \in WaitpidAnswers(child, pending) : WaitWith(wp)

(* the wait that finds the terminated child *)
WaitReap ==
  /\ child.state = "zombie"
  /\ WaitWith([wpid |-> ChildPid, status |-> KernelStatus(child)])

OsPid ==
  /\ Apply("os_pid", 0, os_pid(ctx, sel))
  /\ UNCHANGED <<auxVars, child, pending, hist, echoVars>>

(* the child ends by itself *)
ChildExit ==
  \E code \in ExitCodes :
    /\ child.state = "running"
    /\ SIGKILL \notin pending
    /\ child' = [state |-> "zombie", how |-> "exit", val |-> code]
    /\ EnvStep("child_exit")
    /\ UNCHANGED <<auxVars, ctx, sel, pending, hist, echoVars>>

(* the kernel acts on a pending signal: SIGKILL always ends the child,      *)
(* SIGTERM ends it unless the child handles or ignores it                  *)
DeliverSignal ==
  /\ child.state = "running"
  /\ pending # {}
  /\ LET sig == IF SIGKILL \in pending THEN SIGKILL ELSE SIGTERM IN
       /\ pending' = pending \ {sig}
       /\ \/ child' = [state |-> "zombie", how |-> "signal", val |-> sig]
          \/ sig # SIGKILL /\ child' = child
  /\ EnvStep("deliver_signal")
  /\ UNCHANGED <<auxVars, ctx, sel, hist, echoVars>>

(* the reactor reports a subscribed descriptor ready; a subscription fires  *)
(* once                                                                    *)
Notify ==
  \E dir \in {"read", "write"} :
    /\ sel[dir]
    /\ sel' = [sel EXCEPT ![dir] = FALSE]
    /\ EnvStep("notify")
    /\ UNCHANGED <<auxVars, ctx, child, pending, hist, echoVars>>

Next ==
  \/ Write \/ Read \/ Close
  \/ IsAlive \/ Terminate \/ Kill \/ Wait \/ OsPid
  \/ ChildExit \/ DeliverSignal \/ Notify

Spec == Init /\ [][Next]_vars

----------------------------------------------------------------------------
(* The echo scenario: the child copies its standard input to its standard   *)
(* output; the caller writes Payload, closes the input direction, and      *)
(* reads until a read returns no bytes.  Writing and reading are two       *)
(* activities of the caller whose calls interleave.  The pipes hold at     *)
(* most MaxPipe bytes.                                                     *)

(* write(2) on a non-blocking pipe holding q: EAGAIN when it is full,       *)
(* otherwise some of the bytes that fit                                    *)
PipeWriteAnswers(q, size) ==
  IF Len(q) >= MaxPipe
    THEN {[result |-> -1, errno |-> EAGAIN]}
    ELSE {[result |-> n, errno |-> 0] : n \in 1..Min(size, MaxPipe - Len(q))}

(* read(2) on a non-blocking pipe holding q: some of the bytes there are;   *)
(* with none, EAGAIN while a writer has the pipe open and 0 afterwards     *)
PipeReadAnswers(q, size, writer_open) ==
  IF Len(q) > 0
    THEN {[result |-> n, errno |-> 0] : n \in 1..Min(size, Len(q))}
  ELSE IF writer_open
    THEN {[result |-> -1, errno |-> EAGAIN]}
    ELSE {[result |-> 0, errno |-> 0]}

Drop(q, n) == SubSeq(q, n + 1, Len(q))

EchoRequests == {UNBUFFERED_READ} \cup (1..MaxLen)

(* where the caller's writing goes after a write returned ret *)
AfterWrite(ret, rest, registered) ==
  IF ret.tag = "ok"
    THEN IF rest = <<>> THEN {"close"}
         ELSE {"write"} \cup (IF registered THEN {"wait_w"} ELSE {})
  ELSE IF ret = make_error(ATOM_EAGAIN) THEN {"wait_w"}
  ELSE {"failed"}

(* where the caller's reading goes after a read returned ret *)
AfterRead(ret, registered) ==
  IF ret.tag = "ok"
    THEN IF ret.term.a = 0 THEN {"done"}
         ELSE {"read"} \cup (IF registered THEN {"wait_r"} ELSE {})
  ELSE IF ret = make_error(ATOM_EAGAIN) THEN {"wait_r"}
  ELSE {"failed"}

SelectOk(r) == \E i \in DOMAIN r.sys : r.sys[i].call \in {"select_read", "select_write"}
                                          /\ r.sys[i].res = 0

ClientWrite ==
  /\ cl.wpc = "write"
  /\ \E wr \in PipeWriteAnswers(stdin_pipe, Len(cl.rest)), retval \in SelectAnswers :
       LET r == sys_write(ctx, sel, Len(cl.rest), wr, retval)
           taken == IF wr.result > 0 THEN wr.result ELSE 0
           rest == IF r.ret.tag = "ok" THEN Drop(cl.rest, r.ret.term.a) ELSE cl.rest
       IN  /\ Apply("write", Len(cl.rest), r)
           /\ stdin_pipe' = stdin_pipe \o SubSeq(cl.rest, 1, taken)
           /\ \E pc \in AfterWrite(r.ret, rest, SelectOk(r)) :
                cl' = [cl EXCEPT !.wpc = pc, !.rest = rest]
  /\ UNCHANGED <<auxVars, child, pending, hist, stdout_pipe, echo_buf, ready>>

ClientClose ==
  /\ cl.wpc = "close"
  /\ \E cr \in CloseAnswers :
       LET r == sys_close(ctx, sel, 0, cr) IN
         /\ Apply("close", 0, r)
         /\ cl' = [cl EXCEPT !.wpc = IF r.ret = bare(ATOM_OK) THEN "closed" ELSE "failed"]
  /\ UNCHANGED <<auxVars, child, pending, hist, stdin_pipe, stdout_pipe, echo_buf, ready>>

ClientRead ==
  /\ cl.rpc = "read"
  /\ \E request \in EchoRequests :
       \E rd \in PipeReadAnswers(stdout_pipe, read_size(request), child.state = "running"),
          retval \in SelectAnswers :
         LET r == sys_read(ctx, sel, request, rd, retval)
             taken == IF rd.result > 0 THEN rd.result ELSE 0
             buf == SubSeq(stdout_pipe, 1, taken)
             bin == IF r.ret.tag = "ok" THEN read_binary(buf, r.ret.term.a) ELSE <<>>
         IN  /\ Apply("read", request, r)
             /\ stdout_pipe' = Drop(stdout_pipe, taken)
             /\ \E pc \in AfterRead(r.ret, SelectOk(r)) :
                  cl' = [cl EXCEPT !.rpc = pc, !.got = @ \o bin]
  /\ UNCHANGED <<auxVars, child, pending, hist, stdin_pipe, echo_buf, ready>>

(* the caller receives a readiness message and retries *)
ClientReady ==
  /\ \/ /\ cl.wpc = "wait_w" /\ ready.write
        /\ ready' = [ready EXCEPT !.write = FALSE]
        /\ cl' = [cl EXCEPT !.wpc = "write"]
     \/ /\ cl.rpc = "wait_r" /\ ready.read
        /\ ready' = [ready EXCEPT !.read = FALSE]
        /\ cl' = [cl EXCEPT !.rpc = "read"]
  /\ EnvStep("ready")
  /\ UNCHANGED <<auxVars, ctx, sel, child, pending, hist, stdin_pipe, stdout_pipe, echo_buf>>

(* the reactor finds a subscribed descriptor ready and tells the caller *)
EchoNotify ==
  /\ \E dir \in {"read", "write"} :
       /\ sel[dir]
       /\ IF dir = "write" THEN Len(stdin_pipe) < MaxPipe
                           ELSE stdout_pipe # <<>> \/ child.state # "running"
       /\ sel' = [sel EXCEPT ![dir] = FALSE]
       /\ ready' = [ready EXCEPT ![dir] = TRUE]
  /\ EnvStep("notify")
  /\ UNCHANGED <<auxVars, ctx, child, pending, hist, stdin_pipe, stdout_pipe, echo_buf, cl>>

(* the child reads from its standard input *)
EchoChildRead ==
  /\ child.state = "running"
  /\ echo_buf = <<>>
  /\ stdin_pipe # <<>>
  /\ \E n \in 1..Min(MaxChunk, Len(stdin_pipe)) :
       /\ echo_buf' = SubSeq(stdin_pipe, 1, n)
       /\ stdin_pipe' = Drop(stdin_pipe, n)
  /\ EnvStep("child_read")
  /\ UNCHANGED <<auxVars, ctx, sel, child, pending, hist, stdout_pipe, ready, cl>>

(* the child writes what it read to its standard output *)
EchoChildWrite ==
  /\ child.state = "running"
  /\ echo_buf # <<>>
  /\ Len(stdout_pipe) < MaxPipe
  /\ \E n \in 1..Min(Len(echo_buf), MaxPipe - Len(stdout_pipe)) :
       /\ stdout_pipe' = stdout_pipe \o SubSeq(echo_buf, 1, n)
       /\ echo_buf' = Drop(echo_buf, n)
  /\ EnvStep("child_write")
  /\ UNCHANGED <<auxVars, ctx, sel, child, pending, hist, stdin_pipe, ready, cl>>

(* the child finds the end of its input, the caller having closed the only  *)
(* write end, and exits                                                    *)
EchoChildExit ==
  /\ child.state = "running"
  /\ echo_buf = <<>>
  /\ stdin_pipe = <<>>
  /\ ctx.cmd_input_fd = PIPE_CLOSED
  /\ child' = [state |-> "zombie", how |-> "exit", val |-> 0]
  /\ EnvStep("child_exit")
  /\ UNCHANGED <<auxVars, ctx, sel, pending, hist, stdin_pipe, stdout_pipe, echo_buf, ready, cl>>

EchoNext ==
  \/ ClientWrite \/ ClientClose \/ ClientRead \/ ClientReady
  \/ EchoNotify
  \/ EchoChildRead \/ EchoChildWrite \/ EchoChildExit

(* every party that can take a step eventually takes one *)
EchoSpec ==
  /\ Init /\ [][EchoNext]_vars
  /\ WF_vars(ClientWrite) /\ WF_vars(ClientClose) /\ WF_vars(ClientRead)
  /\ WF_vars(ClientReady) /\ WF_vars(EchoNotify)
  /\ WF_vars(EchoChildRead) /\ WF_vars(EchoChildWrite) /\ WF_vars(EchoChildExit)

(* The lifecycle operations alone, with a caller that keeps calling wait    *)
(* until it has reaped the child, and a kernel that acts on every signal   *)
(* it accepted.                                                            *)
LifeNext ==
  \/ IsAlive \/ Terminate \/ Kill \/ Wait \/ OsPid
  \/ ChildExit \/ DeliverSignal

LiveSpec ==
  Init /\ [][LifeNext]_vars /\ WF_vars(WaitReap) /\ WF_vars(DeliverSignal)

(* The life of a handle up to its release: the last reference is dropped   *)
(* and the garbage collector runs the destructor, after which no call can  *)
(* name the handle; the child and the reactor go on.                       *)
Release ==
  /\ ~hist.released
  /\ Apply("release", 0, exec_ctx_dtor(ctx, sel))
  /\ hist' = [hist EXCEPT !.released = TRUE]
  /\ UNCHANGED <<auxVars, child, pending, echoVars>>

HandleCall ==
  \/ Write \/ Read \/ Close
  \/ IsAlive \/ Terminate \/ Kill \/ Wait \/ OsPid

ReleaseNext ==
  \/ ~hist.released /\ HandleCall
  \/ Release
  \/ ChildExit \/ DeliverSignal \/ Notify

ReleaseSpec == Init /\ [][ReleaseNext]_vars

----------------------------------------------------------------------------
(* The launch on its own: execute is called once, the child goes through   *)
(* its setup, and the caller waits on the handle it got.                   *)

LaunchInit ==
  /\ ctx = NoHandle
  /\ sel = [read |-> FALSE, write |-> FALSE]
  /\ child = [state |-> "none", how |-> "none", val |-> 0]
  /\ pending = {}
  /\ last = Step("load", 0, NoReturn, <<>>)
  /\ hist = [term |-> NoReturn, kill_unreaped |-> FALSE, kill_running |-> FALSE,
             released |-> FALSE]
  /\ stdin_pipe = <<>>
  /\ stdout_pipe = <<>>
  /\ echo_buf = <<>>
  /\ ready = [read |-> FALSE, write |-> FALSE]
  /\ cl = [wpc |-> "write", rpc |-> "read", rest |-> Payload, got |-> <<>>]
  /\ launch \in {NotLaunched(args, t) : args \in Args, t \in ParentTables}
  /\ conc = NoCalls

(* execute: start_process, then the handle is filled from its result; the  *)
(* exit fields of the new handle are not written                           *)
Execute ==
  /\ launch.pc = "call"
  /\ \E ans \in StartAnswers, et \in 0..3 :
       LET r == start_process(launch.parent, ans) IN
         /\ launch' = Returned(launch, r)
         /\ ctx' = IF r.success
                     THEN [cmd_input_fd |-> r.context.cmd_input_fd,
                           cmd_output_fd |-> r.context.cmd_output_fd,
                           pid |-> r.context.pid,
                           exit_type |-> et, exit_status |-> 99]
                     ELSE ctx
         /\ child' = IF r.success THEN [child EXCEPT !.state = "running"] ELSE child
         /\ last' = Step("execute", 0, execute(r), r.sys)
  /\ UNCHANGED <<sel, pending, hist, echoVars, conc>>

(* the forked child runs from fork to execve or _exit *)
ChildSetup ==
  /\ launch.cstate = "forked"
  /\ child.state = "running"
  /\ \E fail \in ChildFailures(launch.args) :
       LET c == child_setup(launch.child_fds, launch.r_cmdin, launch.w_cmdout,
                            launch.args, fail) IN
         /\ launch' = SetUp(launch, c)
         /\ child' = IF c.ran THEN child
                     ELSE [state |-> "zombie", how |-> "exit", val |-> c.status]
  /\ EnvStep("child_setup")
  /\ UNCHANGED <<ctx, sel, pending, hist, echoVars, conc>>

LaunchNext ==
  \/ Execute
  \/ ChildSetup
  \/ launch.handle /\ (Wait \/ IsAlive \/ OsPid)
  \/ launch.cstate = "exec" /\ ChildExit

LaunchSpec == LaunchInit /\ [][LaunchNext]_vars

----------------------------------------------------------------------------
(* read, write and close in flight at once, step by step.  A descriptor    *)
(* the kernel no longer knows, -1 or one that close(2) was called on,      *)
(* makes a syscall fail with EBADF and enif_select fail; close(2) of an    *)
(* open pipe end succeeds.                                                 *)

Stale(fd) == fd = PIPE_CLOSED \/ fd \in conc.closed

IoAnswers(op, fd, request) ==
  IF Stale(fd) THEN {[result |-> -1, errno |-> EBADF]}
  ELSE IF op = "write" THEN WriteAnswers(MaxLen)
  ELSE ReadAnswers(read_size(request))

(* the request is not yet satisfied: the call goes on to enif_select *)
IoSelects(op, ans, request) ==
  IF ans.result >= 0
    THEN IF op = "write" THEN ~write_complete(ans.result, MaxLen)
                         ELSE ~read_no_select(ans.result, request)
    ELSE ans.errno = EAGAIN \/ ans.errno = EWOULDBLOCK

IoCount(op, n) ==
  IF op = "write" THEN make_ok(enif_make_int(n)) ELSE make_ok(enif_make_binary(n))

(* sys_read, sys_write: the test of the descriptor against PIPE_CLOSED *)
IoCheck(t) ==
  /\ conc.thr[t] = Idle
  /\ \E op \in {"read", "write"} :
       LET dir == IF op = "write" THEN "in" ELSE "out"
           fd == Field(ctx, dir)
       IN  IF pipe_closed(fd)
             THEN /\ last' = Step(op, 0, make_error(ATOM_PIPE_CLOSED), <<>>)
                  /\ conc' = conc
             ELSE /\ last' = Step(op, 0, NoReturn, <<>>)
                  /\ conc' = [conc EXCEPT
                                !.thr[t] = Running(op, "syscall", dir, fd, 0, 0)]
  /\ UNCHANGED <<ctx, sel, child, pending, hist, echoVars, launch>>

(* sys_read, sys_write: read(2) or write(2) on the descriptor *)
IoSyscall(t) ==
  LET th == conc.thr[t] IN
    /\ th.pc = "syscall"
    /\ \E fd \in Reads(th.seen, Field(ctx, th.dir)),
          request \in {UNBUFFERED_READ, MaxLen} :
         \E ans \in IoAnswers(th.op, fd, request) :
           LET call == Sys(th.op, fd, 0, ans.result, ans.errno) IN
             IF IoSelects(th.op, ans, request)
               THEN /\ last' = Step(th.op, 0, NoReturn, <<call>>)
                    /\ conc' = AfterCall(t, [th EXCEPT !.pc = "select",
                                                       !.res = ans.result],
                                         th.op, fd)
               ELSE /\ last' = Step(th.op, 0,
                                    IF ans.result >= 0 THEN IoCount(th.op, ans.result)
                                                       ELSE make_error(enif_make_int(ans.errno)),
                                    <<call>>)
                    /\ conc' = AfterCall(t, Idle, th.op, fd)
    /\ UNCHANGED <<ctx, sel, child, pending, hist, echoVars, launch>>

(* select_read, select_write: enif_select on the descriptor, then return *)
IoSelect(t) ==
  LET th == conc.thr[t] IN
    /\ th.pc = "select"
    /\ \E fd \in Reads(th.seen, Field(ctx, th.dir)) :
         \E retval \in IF Stale(fd) THEN {SELECT_FAILED} ELSE SelectAnswers :
           LET call == IF th.op = "write" THEN "select_write" ELSE "select_read" IN
             /\ sel' = IF th.op = "write" THEN select_write(sel, retval)
                                          ELSE select_read(sel, retval)
             /\ last' = Step(th.op, 0,
                             IF retval # 0 THEN make_error(enif_make_int(retval))
                             ELSE IF th.res >= 0 THEN IoCount(th.op, th.res)
                             ELSE make_error(ATOM_EAGAIN),
                             <<Sys(call, fd, 0, retval, 0)>>)
             /\ conc' = AfterCall(t, Idle, call, fd)
    /\ UNCHANGED <<ctx, child, pending, hist, echoVars, launch>>

(* sys_close: the test of the descriptor of the direction *)
CloseCheck(t) ==
  /\ conc.thr[t] = Idle
  /\ \E kind \in 0..2 :
       LET dir == IF kind = 0 THEN "in" ELSE "out"
           fd == Field(ctx, dir)
       IN  IF kind = 2
             THEN /\ last' = Step("close", 0, BADARG, <<>>)
                  /\ conc' = conc
           ELSE IF pipe_closed(fd)
             THEN /\ last' = Step("close", 0, bare(ATOM_OK), <<>>)
                  /\ conc' = conc
           ELSE /\ last' = Step("close", 0, NoReturn, <<>>)
                /\ conc' = [conc EXCEPT
                              !.thr[t] = Running("close", "stop", dir, fd, 0, 0)]
  /\ UNCHANGED <<ctx, sel, child, pending, hist, echoVars, launch>>

(* sys_close: enif_select(..., ERL_NIF_SELECT_STOP, ...) *)
CloseStop(t) ==
  LET th == conc.thr[t] IN
    /\ th.pc = "stop"
    /\ \E fd \in Reads(th.seen, Field(ctx, th.dir)) :
         /\ sel' = IF Stale(fd) THEN sel
                   ELSE IF th.dir = "in" THEN [sel EXCEPT !.write = FALSE]
                   ELSE [sel EXCEPT !.read = FALSE]
         /\ last' = Step("close", 0, NoReturn, <<Sys("select_stop", fd, 0, 0, 0)>>)
         /\ conc' = AfterCall(t, [th EXCEPT !.pc = "close"], "select_stop", fd)
    /\ UNCHANGED <<ctx, child, pending, hist, echoVars, launch>>

(* sys_close: close(2) *)
CloseSyscall(t) ==
  LET th == conc.thr[t] IN
    /\ th.pc = "close"
    /\ \E fd \in Reads(th.seen, Field(ctx, th.dir)) :
         LET cr == IF Stale(fd) THEN [result |-> -1, errno |-> EBADF]
                                ELSE [result |-> 0, errno |-> 0]
             call == Sys("close", fd, 0, cr.result, cr.errno)
         IN  IF cr.result = 0
               THEN /\ last' = Step("close", 0, NoReturn, <<call>>)
                    /\ conc' = AfterCall(t, [th EXCEPT !.pc = "mark"], "close", fd)
               ELSE /\ last' = Step("close", 0, make_error(enif_make_int(cr.errno)),
                                    <<call>>)
                    /\ conc' = AfterCall(t, Idle, "close", fd)
    /\ UNCHANGED <<ctx, sel, child, pending, hist, echoVars, launch>>

(* sys_close: the descriptor of the direction becomes PIPE_CLOSED *)
CloseMark(t) ==
  LET th == conc.thr[t] IN
    /\ th.pc = "mark"
    /\ ctx' = IF th.dir = "in" THEN [ctx EXCEPT !.cmd_input_fd = PIPE_CLOSED]
                               ELSE [ctx EXCEPT !.cmd_output_fd = PIPE_CLOSED]
    /\ last' = Step("close", 0, bare(ATOM_OK), <<>>)
    /\ conc' = [conc EXCEPT !.thr[t] = Idle]
    /\ UNCHANGED <<sel, child, pending, hist, echoVars, launch>>

ConcIoNext ==
  \E t \in Threads :
    \/ IoCheck(t) \/ IoSyscall(t) \/ IoSelect(t)
    \/ CloseCheck(t) \/ CloseStop(t) \/ CloseSyscall(t) \/ CloseMark(t)

ConcIoSpec == Init /\ [][ConcIoNext]_vars

----------------------------------------------------------------------------
(* wait, kill, terminate and is_alive in flight at once, step by step      *)

SignalOf(op) == IF op = "kill" THEN SIGKILL ELSE IF op = "terminate" THEN SIGTERM ELSE 0

(* kill(-1, sig) reaches every process the BEAM may signal, the child      *)
(* among them while it exists, and succeeds                                *)
ConcKillAnswers(pid) == IF pid = CMD_EXIT THEN {0} ELSE KillAnswers(child)

(* the books after a kill(pid, sig): the first kill whose target was the   *)
(* pid of the reaped child or -1                                           *)
AfterKill(t, pid, sig) ==
  [conc EXCEPT
     !.thr[t] = Idle,
     !.kills = IF conc.kills = {} /\ (pid = CMD_EXIT \/ child.state = "reaped")
                 THEN {<<pid, sig>>} ELSE @]

(* sys_kill, sys_terminate, is_alive: the test of ctx->pid against CMD_EXIT *)
SigCheck(t) ==
  /\ conc.thr[t] = Idle
  /\ \E op \in {"kill", "terminate", "is_alive"} :
       IF ctx.pid = CMD_EXIT
         THEN /\ last' = Step(op, 0, IF op = "is_alive" THEN make_ok(ATOM_TRUE)
                                     ELSE make_ok(enif_make_int(0)), <<>>)
              /\ conc' = conc
         ELSE /\ last' = Step(op, 0, NoReturn, <<>>)
              /\ conc' = [conc EXCEPT
                            !.thr[t] = Running(op, "kill", "pid", ctx.pid, 0, 0)]
  /\ UNCHANGED <<ctx, sel, child, pending, hist, echoVars, launch>>

(* sys_kill, sys_terminate, is_alive: kill(ctx->pid, sig), then return *)
SigSyscall(t) ==
  LET th == conc.thr[t]
      sig == SignalOf(th.op)
  IN  /\ th.pc = "kill"
      /\ \E pid \in Reads(th.seen, ctx.pid) :
           \E kr \in ConcKillAnswers(pid) :
             /\ pending' = IF kr = 0 /\ sig # 0 /\ child.state = "running"
                             THEN pending \cup {sig} ELSE pending
             /\ last' = Step(th.op, 0,
                             IF th.op # "is_alive" THEN make_ok(enif_make_int(kr))
                             ELSE IF kr = 0 THEN make_ok(ATOM_TRUE)
                             ELSE make_ok(ATOM_FALSE),
                             <<Sys("kill", pid, sig, kr, 0)>>)
             /\ conc' = AfterKill(t, pid, sig)
      /\ UNCHANGED <<ctx, sel, child, hist, echoVars, launch>>

(* sys_wait: the test of ctx->pid against CMD_EXIT *)
WaitCheck(t) ==
  /\ conc.thr[t] = Idle
  /\ IF ctx.pid = CMD_EXIT
       THEN /\ last' = Step("wait", 0, make_exit_term(ctx), <<>>)
            /\ conc' = conc
       ELSE /\ last' = Step("wait", 0, NoReturn, <<>>)
            /\ conc' = [conc EXCEPT
                          !.thr[t] = Running("wait", "waitpid", "pid", ctx.pid, 0, 0)]
  /\ UNCHANGED <<ctx, sel, child, pending, hist, echoVars, launch>>

(* sys_wait: waitpid(ctx->pid, &status, WNOHANG); with -1 for a pid it      *)
(* waits for any child of the BEAM, this one among them                    *)
WaitSyscall(t) ==
  LET th == conc.thr[t] IN
    /\ th.pc = "waitpid"
    /\ \E pid \in Reads(th.seen, ctx.pid) :
         \E wp \in WaitpidAnswers(child, pending) :
           /\ child' = IF wp.wpid = ChildPid /\ child.state = "zombie"
                         THEN [child EXCEPT !.state = "reaped"] ELSE child
           /\ last' = Step("wait", 0, NoReturn,
                           <<Sys("waitpid", pid, 0, wp.wpid, wp.status)>>)
           /\ conc' = [conc EXCEPT !.thr[t] = [th EXCEPT !.pc = "compare",
                                                         !.res = wp.wpid,
                                                         !.aux = wp.status]]
    /\ UNCHANGED <<ctx, sel, pending, hist, echoVars, launch>>

(* sys_wait: wpid == ctx->pid, and if so ctx->pid = CMD_EXIT; otherwise    *)
(* {error, {Wpid, Status}} is returned                                     *)
WaitMark(t) ==
  LET th == conc.thr[t] IN
    /\ th.pc = "compare"
    /\ \E pid \in Reads(th.seen, ctx.pid) :
         IF th.res = pid
           THEN /\ ctx' = [ctx EXCEPT !.pid = CMD_EXIT]
                /\ last' = Step("wait", 0, NoReturn, <<>>)
                /\ conc' = [conc EXCEPT !.thr[t] = [th EXCEPT !.pc = "exit_type"]]
           ELSE /\ ctx' = ctx
                /\ last' = Step("wait", 0,
                                make_error(enif_make_tuple2(th.res, th.aux)), <<>>)
                /\ conc' = [conc EXCEPT !.thr[t] = Idle]
    /\ UNCHANGED <<sel, child, pending, hist, echoVars, launch>>

(* sys_wait: ctx->exit_type is written from the status *)
WaitType(t) ==
  LET th == conc.thr[t] IN
    /\ th.pc = "exit_type"
    /\ ctx' = [ctx EXCEPT !.exit_type = record_status(ctx, th.aux).exit_type]
    /\ last' = Step("wait", 0, NoReturn, <<>>)
    /\ conc' = [conc EXCEPT !.thr[t] = [th EXCEPT !.pc = "exit_status"]]
    /\ UNCHANGED <<sel, child, pending, hist, echoVars, launch>>

(* sys_wait: ctx->exit_status is written from the status *)
WaitStatus(t) ==
  LET th == conc.thr[t] IN
    /\ th.pc = "exit_status"
    /\ ctx' = [ctx EXCEPT !.exit_status = record_status(ctx, th.aux).exit_status]
    /\ last' = Step("wait", 0, NoReturn, <<>>)
    /\ conc' = [conc EXCEPT !.thr[t] = [th EXCEPT !.pc = "return"]]
    /\ UNCHANGED <<sel, child, pending, hist, echoVars, launch>>

(* sys_wait: make_exit_term(env, ctx) reads the exit fields and returns *)
WaitReturn(t) ==
  LET th == conc.thr[t] IN
    /\ th.pc = "return"
    /\ last' = Step("wait", 0, make_exit_term(ctx), <<>>)
    /\ conc' = [conc EXCEPT !.thr[t] = Idle]
    /\ UNCHANGED <<ctx, sel, child, pending, hist, echoVars, launch>>

ConcLifeNext ==
  \/ \E t \in Threads :
       \/ SigCheck(t) \/ SigSyscall(t)
       \/ WaitCheck(t) \/ WaitSyscall(t) \/ WaitMark(t)
       \/ WaitType(t) \/ WaitStatus(t) \/ WaitReturn(t)
  \/ ChildExit
  \/ DeliverSignal

ConcLifeSpec == Init /\ [][ConcLifeNext]_vars

----------------------------------------------------------------------------
(* Reading the last step *)

Issued(call) == \E i \in DOMAIN last.sys : last.sys[i].call = call

(* the last step made a subscription: enif_select was called and answered 0 *)
Registered(call) ==
  \E i \in DOMAIN last.sys : last.sys[i].call = call /\ last.sys[i].res = 0

(* the last step called enif_select and it failed *)
RegistrationFailed(call) ==
  \E i \in DOMAIN last.sys : last.sys[i].call = call /\ last.sys[i].res # 0

(* the last step was a write whose write(2) accepted n >= 0 bytes *)
WriteAccepted ==
  last.op = "write" /\ last.sys # <<>> /\ last.sys[1].res >= 0

(* the last step was a buffered read whose read(2) returned n >= 0 bytes *)
BufferedReadReturned ==
  last.op = "read" /\ last.arg >= 1 /\ last.sys # <<>> /\ last.sys[1].res >= 0

Ok_int(n) == make_ok(enif_make_int(n))
Ok_binary(n) == make_ok(enif_make_binary(n))
Err_int(n) == make_error(enif_make_int(n))
Exited(code) == make_ok(exit_tuple("exit", code))
Signaled(sig) == make_ok(exit_tuple("signaled", sig))

----------------------------------------------------------------------------
(* C1 as stated: every write on an open input direction whose write(2)      *)
(* accepts n of L > 0 bytes returns {ok, n}, and registers write readiness *)
(* exactly when n < L.                                                     *)
C1_AsStated ==
  WriteAccepted =>
    /\ last.ret = Ok_int(last.sys[1].res)
    /\ Registered("select_write") <=> last.sys[1].res < last.arg

(* C1, amended: a write on an open input direction whose write(2) accepts   *)
(* n of L > 0 bytes asks for write readiness exactly when n < L.  When     *)
(* n = L, or when n < L and the registration succeeds, it returns {ok, n}  *)
(* and the subscription exists exactly when n < L was registered by it.    *)
(* When n < L and enif_select fails, it returns {error, Retval} with the   *)
(* value enif_select answered, and has registered nothing.                 *)
C1_WriteCount ==
  WriteAccepted =>
    LET n == last.sys[1].res
        L == last.arg
    IN  /\ Issued("select_write") <=> n < L
        /\ Registered("select_write") => sel.write /\ last.sys[2].on = ctx.cmd_input_fd
        /\ IF RegistrationFailed("select_write")
             THEN last.ret = Err_int(last.sys[2].res)
             ELSE /\ last.ret = Ok_int(n)
                  /\ Registered("select_write") <=> n < L

(* C1 witness: a partial write that returned its count and subscribed *)
C1_Witness ==
  /\ WriteAccepted
  /\ 0 < last.sys[1].res /\ last.sys[1].res < last.arg
  /\ Registered("select_write")
  /\ last.ret = Ok_int(last.sys[1].res)

(* C2 as stated: every buffered read (R >= 1) on an open output direction   *)
(* whose read(2) returns n >= 0 bytes returns {ok, <n bytes>} with         *)
(* n <= min(R, PIPE_BUF_SIZE), and registers read readiness exactly when   *)
(* 0 < n < R.                                                              *)
C2_AsStated ==
  BufferedReadReturned =>
    LET n == last.sys[1].res
        R == last.arg
    IN  /\ last.ret = Ok_binary(n)
        /\ n <= Min(R, PIPE_BUF_SIZE)
        /\ Registered("select_read") <=> (0 < n /\ n < R)

(* C2, amended: a buffered read (R >= 1) on an open output direction whose  *)
(* read(2) returns n >= 0 bytes has n <= min(R, PIPE_BUF_SIZE) and asks    *)
(* for read readiness exactly when 0 < n < R.  When nothing is asked for   *)
(* (n = 0 or n = R) or the registration succeeds, it returns the n bytes;  *)
(* when 0 < n < R and enif_select fails, it returns {error, Retval} with   *)
(* the value enif_select answered and has registered nothing.              *)
C2_ReadCount ==
  BufferedReadReturned =>
    LET n == last.sys[1].res
        R == last.arg
    IN  /\ n <= Min(R, PIPE_BUF_SIZE)
        /\ Issued("select_read") <=> (0 < n /\ n < R)
        /\ Registered("select_read") => sel.read /\ last.sys[2].on = ctx.cmd_output_fd
        /\ IF RegistrationFailed("select_read")
             THEN last.ret = Err_int(last.sys[2].res)
             ELSE /\ last.ret = Ok_binary(n)
                  /\ Registered("select_read") <=> (0 < n /\ n < R)

(* C2 witness: a request above the cap answered with a full buffer, which   *)
(* is still less than was asked for, so the read subscribed                *)
C2_Witness ==
  /\ BufferedReadReturned
  /\ last.arg > PIPE_BUF_SIZE
  /\ last.sys[1].res = PIPE_BUF_SIZE
  /\ Registered("select_read")
  /\ last.ret = Ok_binary(PIPE_BUF_SIZE)

(* C3: a read or write that returns {error, eagain} has, in that call,      *)
(* subscribed to readiness of its own direction on the descriptor the      *)
(* handle still holds open, and its syscall transferred no bytes; a call   *)
(* whose enif_select failed does not return eagain.                        *)
C3_EagainRegisters ==
  /\ (last.op = "write" /\ last.ret = make_error(ATOM_EAGAIN)) =>
       /\ Registered("select_write") /\ ~RegistrationFailed("select_write")
       /\ last.sys[2].on = ctx.cmd_input_fd /\ ctx.cmd_input_fd # PIPE_CLOSED
       /\ sel.write
       /\ last.sys[1].call = "write" /\ last.sys[1].res < 0
  /\ (last.op = "read" /\ last.ret = make_error(ATOM_EAGAIN)) =>
       /\ Registered("select_read") /\ ~RegistrationFailed("select_read")
       /\ last.sys[2].on = ctx.cmd_output_fd /\ ctx.cmd_output_fd # PIPE_CLOSED
       /\ sel.read
       /\ last.sys[1].call = "read" /\ last.sys[1].res < 0
  /\ (last.op \in {"read", "write"}
        /\ (RegistrationFailed("select_read") \/ RegistrationFailed("select_write"))) =>
       last.ret # make_error(ATOM_EAGAIN)

(* C3 witness: a read that found nothing to read and returned eagain *)
C3_Witness ==
  /\ last.op = "read"
  /\ last.ret = make_error(ATOM_EAGAIN)
  /\ last.sys[1].aux = EAGAIN
  /\ sel.read

(* C5: a read on a closed output direction, and a write on a closed input   *)
(* direction, returns {error, closed_pipe}, issues no syscall and no       *)
(* enif_select, and leaves the handle and the subscriptions as they were.  *)
C5_ClosedDirection ==
  [][((last'.op = "write" /\ ctx.cmd_input_fd = PIPE_CLOSED)
        \/ (last'.op = "read" /\ ctx.cmd_output_fd = PIPE_CLOSED)) =>
       /\ last'.ret = make_error(ATOM_PIPE_CLOSED)
       /\ last'.sys = <<>>
       /\ ctx' = ctx
       /\ sel' = sel]_vars

(* C5 witness: a read refused because the output direction is closed *)
C5_Witness ==
  /\ last.op = "read"
  /\ ctx.cmd_output_fd = PIPE_CLOSED
  /\ last.ret = make_error(ATOM_PIPE_CLOSED)

(* C6: a close of a direction that is already closed returns ok, issues     *)
(* neither enif_select nor close(2), and leaves the handle and the         *)
(* subscriptions unchanged; a descriptor field that is closed stays closed *)
(* in every step.                                                          *)
C6_CloseIdempotent ==
  [][/\ (last'.op = "close"
           /\ ((last'.arg = 0 /\ ctx.cmd_input_fd = PIPE_CLOSED)
                 \/ (last'.arg = 1 /\ ctx.cmd_output_fd = PIPE_CLOSED))) =>
          /\ last'.ret = bare(ATOM_OK)
          /\ last'.sys = <<>>
          /\ ctx' = ctx
          /\ sel' = sel
     /\ ctx.cmd_input_fd = PIPE_CLOSED => ctx'.cmd_input_fd = PIPE_CLOSED
     /\ ctx.cmd_output_fd = PIPE_CLOSED => ctx'.cmd_output_fd = PIPE_CLOSED]_vars

(* C6 witness: a second close of the output direction, answered without a   *)
(* syscall                                                                 *)
C6_Witness ==
  /\ last.op = "close" /\ last.arg = 1
  /\ last.sys = <<>>
  /\ last.ret = bare(ATOM_OK)
  /\ ctx.cmd_output_fd = PIPE_CLOSED

(* C7: a wait whose waitpid finds the child terminated returns              *)
(* {ok, {exit, Code}} with the code the child exited with, or              *)
(* {ok, {signaled, Sig}} with the signal that ended it, and leaves the pid *)
(* marked reaped; os_pid returns the child's pid as long as no wait has    *)
(* reaped it, and 0 afterwards.                                            *)
C7_WaitClassifies ==
  /\ (last.op = "wait" /\ last.sys # <<>> /\ child.state = "reaped") =>
       /\ last.ret = IF child.how = "exit" THEN Exited(child.val)
                                           ELSE Signaled(child.val)
       /\ ctx.pid = CMD_EXIT
  /\ last.op = "os_pid" =>
       last.ret = Ok_int(IF hist.term = NoReturn THEN ChildPid ELSE 0)

(* C7 witness: os_pid answering 0 after a wait returned {exit, 7} *)
C7_Witness ==
  /\ last.op = "os_pid"
  /\ last.ret = Ok_int(0)
  /\ hist.term = Exited(7)
  /\ child = [state |-> "reaped", how |-> "exit", val |-> 7]

(* C8: once a wait has recorded a classification, every later wait returns  *)
(* that classification, every later terminate and kill returns {ok, 0},    *)
(* none of them calls waitpid or kill, and pid, exit_type and exit_status  *)
(* do not change any more.                                                 *)
C8_TerminalIsFinal ==
  [][hist.term # NoReturn =>
       /\ ctx.pid = CMD_EXIT /\ ctx'.pid = CMD_EXIT
       /\ ctx'.exit_type = ctx.exit_type
       /\ ctx'.exit_status = ctx.exit_status
       /\ hist'.term = hist.term
       /\ last'.op = "wait" => last'.ret = hist.term /\ last'.sys = <<>>
       /\ last'.op \in {"terminate", "kill"} =>
            last'.ret = Ok_int(0) /\ last'.sys = <<>>]_vars

(* C8 witness: a kill on a handle reaped as signaled, answered {ok, 0}      *)
(* without a syscall                                                       *)
C8_Witness ==
  /\ last.op = "kill"
  /\ hist.term = Signaled(SIGTERM)
  /\ last.ret = Ok_int(0)
  /\ last.sys = <<>>

(* C10: a wait whose waitpid does not answer the child's pid returns        *)
(* {error, {Wpid, Status}} with what waitpid answered, which is {0, 0}     *)
(* when the child has not changed state, and leaves the handle as it was,  *)
(* pid not reaped and exit fields untouched, and the child reapable.       *)
C10_WaitNotYet ==
  [][(last'.op = "wait" /\ last'.sys # <<>> /\ last'.sys[1].res # last'.sys[1].on) =>
       /\ last'.ret = make_error(enif_make_tuple2(last'.sys[1].res, last'.sys[1].aux))
       /\ last'.sys[1].res = 0 => last'.ret = make_error(enif_make_tuple2(0, 0))
       /\ last'.ret.tag = "error"
       /\ ctx' = ctx
       /\ ctx'.pid = ChildPid
       /\ hist'.term = NoReturn
       /\ child' = child]_vars

(* C10 witness: a wait on a running child, answered {error, {0, 0}} *)
C10_Witness ==
  /\ last.op = "wait"
  /\ last.ret = make_error(enif_make_tuple2(0, 0))
  /\ child.state = "running"
  /\ ctx.pid = ChildPid

(* C9 as stated: after a kill on a handle that is not yet reaped, which the *)
(* kernel accepted, no wait returns a terminal classification other than   *)
(* {signaled, SIGKILL}.                                                    *)
C9_AsStated ==
  (hist.kill_unreaped /\ last.op = "wait" /\ last.ret.tag = "ok") =>
    last.ret = Signaled(SIGKILL)

(* C9, amended: if kill is called on a handle whose child is still running  *)
(* (not reaped and not already terminated) and the kernel accepts the      *)
(* signal, then, with the kernel acting on the signal and the caller       *)
(* calling wait until the child is reaped, some later wait returns         *)
(* {ok, {signaled, SIGKILL}}; every wait before it returns an error pair   *)
(* and no wait returns another classification.                             *)
C9_KillThenWait ==
  /\ []((hist.kill_running /\ last.op = "wait" /\ last.ret.tag # "error") =>
          last.ret = Signaled(SIGKILL))
  /\ (hist.kill_running /\ hist.term = NoReturn)
       ~> (last.op = "wait" /\ last.ret = Signaled(SIGKILL))

(* C9 witness: the wait that reaps a child ended by the handle's kill *)
C9_Witness ==
  /\ hist.kill_running
  /\ last.op = "wait"
  /\ last.sys # <<>>
  /\ last.ret = Signaled(SIGKILL)
  /\ child = [state |-> "reaped", how |-> "signal", val |-> SIGKILL]

(* no call of the caller has returned an error other than eagain *)
NoCallFailed == cl.wpc # "failed" /\ cl.rpc # "failed"

(* C4: in the echo scenario, as long as every call returned ok or eagain,   *)
(* the bytes received, followed by the bytes still in the stdout pipe, in  *)
(* the child, in the stdin pipe and left to write, are Payload in order;   *)
(* when a read returns no bytes the bytes received are exactly Payload;    *)
(* and that read eventually happens unless a call fails.                   *)
C4_EchoRoundTrip ==
  /\ [](NoCallFailed =>
          cl.got \o stdout_pipe \o echo_buf \o stdin_pipe \o cl.rest = Payload)
  /\ [](cl.rpc = "done" => cl.got = Payload)
  /\ <>(cl.rpc = "done" \/ ~NoCallFailed)

(* C4 witness: the end of stream reached with the whole payload received,   *)
(* after the input direction was closed                                    *)
C4_Witness ==
  /\ cl.rpc = "done"
  /\ cl.wpc = "closed"
  /\ cl.got = Payload
  /\ last.op = "read" /\ last.ret = Ok_binary(0)

----------------------------------------------------------------------------
(* the last step was an unbuffered read that reached read(2) *)
UnbufferedRead ==
  last.op = "read" /\ last.arg = UNBUFFERED_READ /\ last.sys # <<>>

(* C14 as stated: a read requested with UNBUFFERED_READ never registers a   *)
(* read-readiness subscription, whatever read(2) answered.                 *)
C14_AsStated ==
  UnbufferedRead => ~Registered("select_read")

(* C14, amended: an unbuffered read whose read(2) returns n >= 0 bytes      *)
(* (end of stream, a full buffer, or fewer bytes than PIPE_BUF_SIZE)       *)
(* returns them and does not call enif_select; so does one whose read(2)   *)
(* fails with an error other than EAGAIN, which returns the errno.  Only   *)
(* when read(2) fails with EAGAIN does it ask for read readiness, as a     *)
(* buffered read does: it returns {error, eagain} when the registration    *)
(* succeeds and {error, Retval} when it fails.                             *)
C14_UnbufferedRead ==
  UnbufferedRead =>
    LET n == last.sys[1].res
        e == last.sys[1].aux
    IN  /\ Issued("select_read") <=> (n < 0 /\ e = EAGAIN)
        /\ n >= 0 => last.ret = Ok_binary(n)
        /\ (n < 0 /\ e # EAGAIN) => last.ret = Err_int(e)
        /\ Registered("select_read") => last.ret = make_error(ATOM_EAGAIN) /\ sel.read
        /\ RegistrationFailed("select_read") => last.ret = Err_int(last.sys[2].res)

(* C14 witness: an unbuffered read that returned fewer bytes than           *)
(* PIPE_BUF_SIZE, not at end of stream, and asked for no readiness         *)
C14_Witness ==
  /\ UnbufferedRead
  /\ 0 < last.sys[1].res /\ last.sys[1].res < PIPE_BUF_SIZE
  /\ ~Issued("select_read")
  /\ last.ret = Ok_binary(last.sys[1].res)

----------------------------------------------------------------------------
(* C15 as stated: is_alive returns {ok, false} for every handle whose       *)
(* process has been reaped; for an unreaped handle it returns {ok, true}   *)
(* exactly when the kill(pid, 0) probe succeeds, and {ok, false}           *)
(* otherwise.                                                              *)
C15_AsStated ==
  last.op = "is_alive" =>
    IF child.state = "reaped"
      THEN last.ret = make_ok(ATOM_FALSE)
      ELSE ctx.pid # CMD_EXIT =>
             /\ Issued("kill")
             /\ last.sys[1].on = ctx.pid /\ last.sys[1].arg = 0
             /\ last.ret = IF last.sys[1].res = 0 THEN make_ok(ATOM_TRUE)
                                                  ELSE make_ok(ATOM_FALSE)

----------------------------------------------------------------------------
(* C16: a read or write whose syscall fails with an errno other than        *)
(* EAGAIN/EWOULDBLOCK returns {error, Errno} with that errno, calls        *)
(* nothing else, and leaves the handle (both descriptors, pid, exit        *)
(* fields), both subscriptions, the child and its pending signals as they  *)
(* were; the direction it used is still open.                              *)
C16_RawErrorNoChange ==
  [][(/\ last'.op \in {"read", "write"}
      /\ last'.sys # <<>>
      /\ last'.sys[1].res < 0
      /\ last'.sys[1].aux \notin {EAGAIN, EWOULDBLOCK}) =>
       /\ last'.ret = Err_int(last'.sys[1].aux)
       /\ Len(last'.sys) = 1
       /\ ctx' = ctx
       /\ sel' = sel
       /\ child' = child /\ pending' = pending
       /\ last'.sys[1].on # PIPE_CLOSED
       /\ last'.sys[1].on = IF last'.op = "write" THEN ctx'.cmd_input_fd
                                                  ELSE ctx'.cmd_output_fd]_vars

(* C16 witness: a write that failed with EPIPE, the input direction still   *)
(* open afterwards                                                         *)
C16_Witness ==
  /\ last.op = "write"
  /\ last.sys # <<>> /\ last.sys[1].res < 0 /\ last.sys[1].aux = EPIPE
  /\ last.ret = Err_int(EPIPE)
  /\ ctx.cmd_input_fd = W_CMDIN
  /\ ~sel.write

----------------------------------------------------------------------------
(* C17: close of one direction leaves the other direction's descriptor and *)
(* subscription, the pid and the exit fields as they were; it calls only   *)
(* enif_select(STOP) and close(2), both on the descriptor of the direction *)
(* it closes, so it sends no signal and attempts no reap; the child and    *)
(* its pending signals are as before.  This holds whether the child is     *)
(* running, has exited or has been reaped.                                 *)
C17_CloseOneDirection ==
  [][last'.op = "close" =>
       /\ last'.arg = 0 =>
            /\ ctx'.cmd_output_fd = ctx.cmd_output_fd
            /\ sel'.read = sel.read
       /\ last'.arg = 1 =>
            /\ ctx'.cmd_input_fd = ctx.cmd_input_fd
            /\ sel'.write = sel.write
       /\ last'.arg \notin {0, 1} => ctx' = ctx /\ sel' = sel
       /\ ctx'.pid = ctx.pid
       /\ ctx'.exit_type = ctx.exit_type
       /\ ctx'.exit_status = ctx.exit_status
       /\ child' = child
       /\ pending' = pending
       /\ \A i \in DOMAIN last'.sys :
            /\ last'.sys[i].call \in {"select_stop", "close"}
            /\ last'.sys[i].on # PIPE_CLOSED
            /\ last'.sys[i].on = IF last'.arg = 0 THEN ctx.cmd_input_fd
                                                  ELSE ctx.cmd_output_fd]_vars

(* C17 witness: the input direction closed on a reaped handle whose output *)
(* direction is open and subscribed                                        *)
C17_Witness ==
  /\ last.op = "close" /\ last.arg = 0
  /\ Issued("close")
  /\ ctx.cmd_input_fd = PIPE_CLOSED
  /\ ctx.cmd_output_fd = R_CMDOUT
  /\ sel.read
  /\ child.state = "reaped"
  /\ ctx.pid = CMD_EXIT

----------------------------------------------------------------------------
(* the descriptors the handle held open before the step *)
OpenDescriptors == {ctx.cmd_input_fd, ctx.cmd_output_fd} \ {PIPE_CLOSED}

(* C18 as stated: the release of a handle closes every descriptor the      *)
(* handle still holds open, exactly once each, and releases both           *)
(* subscriptions; it sends no signal and attempts no reap, whatever the    *)
(* state of the child.                                                     *)
C18_AsStated ==
  [][last'.op = "release" =>
       /\ \A fd \in OpenDescriptors :
            Cardinality({i \in DOMAIN last'.sys :
                           last'.sys[i].call = "close" /\ last'.sys[i].on = fd}) = 1
       /\ sel' = [read |-> FALSE, write |-> FALSE]
       /\ \A i \in DOMAIN last'.sys : last'.sys[i].call \notin {"kill", "waitpid"}
       /\ child' = child
       /\ pending' = pending]_vars

----------------------------------------------------------------------------
(* the last step was execute and one of pipe, fcntl, fork answered -1 *)
LaunchCallFailed ==
  last.op = "execute" /\ \E i \in DOMAIN last.sys : last.sys[i].res = -1

(* the errno of the call that failed in the last step *)
LaunchErrno ==
  last.sys[CHOOSE i \in DOMAIN last.sys : last.sys[i].res = -1].aux

(* the descriptors the pipe calls of the last step opened *)
LaunchOpened ==
  UNION {{last.sys[i].on, last.sys[i].arg} :
           i \in {j \in DOMAIN last.sys :
                    last.sys[j].call = "pipe" /\ last.sys[j].res = 0}}

LaunchClosed ==
  {last.sys[i].on : i \in {j \in DOMAIN last.sys : last.sys[j].call = "close"}}

(* C12: when pipe, set_flag or fork fails, execute returns {error, Errno}   *)
(* with the errno of the failed call, allocates no handle and leaves no    *)
(* child, and the parent's descriptor table is what it was before the      *)
(* call: every descriptor a pipe call opened has been closed.  When        *)
(* nothing fails, the parent has, besides what it had before, exactly the  *)
(* write end of the stdin pipe and the read end of the stdout pipe, both   *)
(* non-blocking and held by the handle; the two child-side ends are        *)
(* closed in the parent.                                                   *)
C12_LaunchDescriptors ==
  last.op = "execute" =>
    IF LaunchCallFailed
      THEN /\ last.ret = Err_int(LaunchErrno)
           /\ ~launch.handle /\ ctx = NoHandle
           /\ child.state = "none" /\ launch.cstate = "none"
           /\ launch.parent = launch.parent0
           /\ LaunchOpened \subseteq LaunchClosed
      ELSE /\ last.ret = make_ok(Term("resource", 0, 0))
           /\ launch.handle /\ child.state = "running"
           /\ {f \in Fds : launch.parent[f] # launch.parent0[f]}
                = {ctx.cmd_input_fd, ctx.cmd_output_fd}
           /\ ctx.cmd_input_fd # ctx.cmd_output_fd
           /\ ~IsOpen(launch.parent0, ctx.cmd_input_fd)
           /\ ~IsOpen(launch.parent0, ctx.cmd_output_fd)
           /\ launch.parent[ctx.cmd_input_fd].obj = "cmdin_w"
           /\ launch.parent[ctx.cmd_input_fd].nonblock
           /\ launch.parent[ctx.cmd_output_fd].obj = "cmdout_r"
           /\ launch.parent[ctx.cmd_output_fd].nonblock
           /\ LaunchOpened \ LaunchClosed = {ctx.cmd_input_fd, ctx.cmd_output_fd}
           /\ LaunchClosed = {launch.r_cmdin, launch.w_cmdout}

(* C12 witness: fork failed after both pipes were made and flagged; the    *)
(* four ends were closed again                                             *)
C12_Witness ==
  /\ last.op = "execute"
  /\ \E i \in DOMAIN last.sys : last.sys[i].call = "fork" /\ last.sys[i].res = -1
  /\ last.ret = Err_int(EAGAIN)
  /\ Cardinality(LaunchOpened) = 4
  /\ LaunchClosed = LaunchOpened
  /\ launch.parent = launch.parent0

----------------------------------------------------------------------------
(* the last step was a wait whose waitpid reaped the child *)
WaitReaped ==
  /\ last.op = "wait"
  /\ last.sys # <<>> /\ last.sys[1].call = "waitpid" /\ last.sys[1].res = ChildPid
  /\ child.state = "reaped"

(* C13: when a step of the child between fork and exec fails (chdir, dup2  *)
(* onto stdin or stdout, open of /dev/null, dup2 onto stderr, execve), the *)
(* child exits with FORK_EXEC_FAILURE = 125 and the target program does    *)
(* not run; execute has returned or returns {ok, Handle} all the same, the *)
(* failing step changes nothing in the handle, and the wait that reaps the *)
(* child returns {ok, {exit, 125}}.                                        *)
C13_ChildSetupFailure ==
  /\ [](launch.cstate = "failed" =>
          /\ launch.cstep \in {"chdir", "dup_stdin", "dup_stdout", "open_null",
                               "dup_stderr", "exec"}
          /\ child.how = "exit" /\ child.val = 125
          /\ child.state \in {"zombie", "reaped"}
          /\ launch.child_fds = NoTable
          /\ launch.handle
          /\ launch.ret = make_ok(Term("resource", 0, 0))
          /\ WaitReaped => last.ret = Exited(125))
  /\ [][launch'.cstate = "failed" /\ launch.cstate # "failed" =>
          /\ launch.cstate = "forked" /\ launch.pc = "returned"
          /\ ctx' = ctx /\ sel' = sel
          /\ launch'.ret = launch.ret /\ launch'.parent = launch.parent]_vars
  /\ [][launch.cstate = "failed" => launch'.cstate = "failed"]_vars

(* C13 witness: the dup2 onto standard output failed in the child, and the *)
(* caller's wait returned the reserved code                                *)
C13_Witness ==
  /\ launch.cstate = "failed" /\ launch.cstep = "dup_stdout"
  /\ launch.ret = make_ok(Term("resource", 0, 0))
  /\ WaitReaped
  /\ last.ret = Exited(FORK_EXEC_FAILURE)

----------------------------------------------------------------------------
(* C11 as stated: execute called with a program path that does not exist   *)
(* returns an error and no handle.                                         *)
C11_AsStated ==
  (launch.pc = "returned" /\ ~launch.args.path_exists) =>
    launch.ret.tag = "error" /\ ~launch.handle

(* C11, amended: execute called with a program path that does not exist    *)
(* returns without waiting for the child: {error, Errno} exactly when      *)
(* pipe, set_flag or fork failed, and {ok, Handle} otherwise.  In the      *)
(* latter case the target program never runs: the child exits with 125     *)
(* at execve at the latest, and the wait that reaps it returns             *)
(* {ok, {exit, 125}}.                                                      *)
C11_NonexistentPath ==
  ~launch.args.path_exists =>
    /\ last.op = "execute" =>
         /\ launch.pc = "returned"
         /\ launch.cstate \in {"none", "forked"}
         /\ IF LaunchCallFailed
              THEN last.ret = Err_int(LaunchErrno) /\ ~launch.handle
              ELSE last.ret = make_ok(Term("resource", 0, 0)) /\ launch.handle
    /\ launch.cstate # "exec"
    /\ child.state \in {"zombie", "reaped"} =>
         /\ launch.cstate = "failed"
         /\ child.how = "exit" /\ child.val = 125
    /\ WaitReaped => last.ret = Exited(125)

(* C11 witness: the path does not exist, execute returned a handle, execve *)
(* failed in the child and wait returned the reserved code                 *)
C11_Witness ==
  /\ ~launch.args.path_exists
  /\ launch.ret = make_ok(Term("resource", 0, 0))
  /\ launch.cstate = "failed" /\ launch.cstep = "exec"
  /\ WaitReaped
  /\ last.ret = Exited(FORK_EXEC_FAILURE)

----------------------------------------------------------------------------
(* C19 as stated: with read, write and close in flight at once, each at    *)
(* its own step, no read(2), write(2), enif_select registration or         *)
(* close(2) is issued on a descriptor number that close(2) has been called *)
(* on before; in particular close(2) is called at most once on it.         *)
C19_AsStated == conc.late = {}

----------------------------------------------------------------------------
(* C20 as stated: with wait in flight together with terminate, kill or     *)
(* is_alive, each at its own step, no kill(2) is issued whose target is    *)
(* the pid of the child after it has been reaped, nor -1.                  *)
C20_AsStated == conc.kills = {}

----------------------------------------------------------------------------
(* the classification of the way the reaped child ended *)
ReapedAs ==
  IF child.how = "exit" THEN Exited(child.val) ELSE Signaled(child.val)

(* C21 as stated: with two or more waits in flight on the handle, each at  *)
(* its own step, every wait that returns a terminal classification after   *)
(* the child was reaped returns the type and the code or signal number     *)
(* the reap observed: none is built from exit fields not yet written.      *)
C21_AsStated ==
  (last.op = "wait" /\ last.ret.tag = "ok" /\ child.state = "reaped") =>
    last.ret = ReapedAs

----------------------------------------------------------------------------
(* the last step stopped the subscription on descriptor fd and then called *)
(* close(2) on it, and issued nothing else                                 *)
StoppedThenClosed(step, fd) ==
  /\ Len(step.sys) = 2
  /\ step.sys[1].call = "select_stop" /\ step.sys[1].on = fd
  /\ step.sys[2].call = "close" /\ step.sys[2].on = fd

(* C22: between calls, a direction has a readiness subscription only while *)
(* its descriptor is open in the handle; and every close of an open        *)
(* direction first stops that direction's subscription and then calls      *)
(* close(2) on the descriptor, whether close(2) succeeds or fails, and     *)
(* leaves the direction without a subscription.                            *)
C22_SubscriptionNeedsOpen ==
  /\ [](/\ sel.write => ~pipe_closed(ctx.cmd_input_fd)
        /\ sel.read => ~pipe_closed(ctx.cmd_output_fd))
  /\ [][/\ (last'.op = "close" /\ last'.arg = 0 /\ ~pipe_closed(ctx.cmd_input_fd)) =>
             /\ StoppedThenClosed(last', ctx.cmd_input_fd)
             /\ ~sel'.write /\ sel'.read = sel.read
        /\ (last'.op = "close" /\ last'.arg = 1 /\ ~pipe_closed(ctx.cmd_output_fd)) =>
             /\ StoppedThenClosed(last', ctx.cmd_output_fd)
             /\ ~sel'.read /\ sel'.write = sel.write]_vars

(* C22 witness: a close of the open input direction that stopped the       *)
(* subscription and whose close(2) then failed; the descriptor stays open  *)
(* in the handle, without a subscription                                   *)
C22_Witness ==
  /\ last.op = "close" /\ last.arg = 0
  /\ StoppedThenClosed(last, W_CMDIN)
  /\ last.sys[2].res = -1
  /\ last.ret = Err_int(EIO)
  /\ ctx.cmd_input_fd = W_CMDIN
  /\ ~sel.write

----------------------------------------------------------------------------
(* C23 as stated: when the child calls exec its open descriptors are 0, 1  *)
(* and 2 and no other: 0 is the read end of the stdin pipe, 1 the write    *)
(* end of the stdout pipe, 2 the parent's standard error when              *)
(* stderr_to_console is set and the null device otherwise, whatever        *)
(* descriptors the parent had open at fork.                                *)
C23_AsStated ==
  launch.cstate = "exec" =>
    /\ launch.child_fds[STDIN_FILENO].obj = "cmdin_r"
    /\ launch.child_fds[STDOUT_FILENO].obj = "cmdout_w"
    /\ launch.child_fds[STDERR_FILENO].obj =
         IF launch.args.stderr_to_console THEN launch.parent0[STDERR_FILENO].obj
                                          ELSE "null"
    /\ \A f \in Fds : f > STDERR_FILENO => ~IsOpen(launch.child_fds, f)

=============================================================================
